---- MODULE Spec2Model ----
(***************************************************************************)
(* RustFS master (leader) metadata: file_chunks, chunk_servers, chunk_map, *)
(* last_heartbeat_time, the RPC handlers of master_impl.rs and the         *)
(* heartbeat checker of master_service.rs.                                 *)
(*                                                                         *)
(* Strings are sequences of tokens, so that format!("{}-{}"),              *)
(* format!("{}_chunk_{}"), split("_chunk_") and starts_with are computed   *)
(* and not assumed: "f-1_chunk_0" is <<"f", "-", "1", "_chunk_", "0">>.    *)
(***************************************************************************)
EXTENDS Integers, Sequences, FiniteSets, TLC

\* ------------------------------------------------------------------ bounds

\* Chunkserver addresses are the first NumServers of AllServers.
NumServers == 3
\* The clock (seconds) runs from 0 to MaxTime.
MaxTime == 2
\* The clock bound of SpecVersion, which follows one chunk over several passes.
MaxVersionTime == 4
\* Client calls (AssignChunks, DeleteFile) per behaviour.
MaxCalls == 2
\* Largest file size a client passes to AssignChunks.
MaxFileSize == 3
\* Longest chunk list a Heartbeat request carries.
MaxHbChunks == 1
\* Longest chunk list a Heartbeat request carries in SpecHeartbeat.
MaxHbChunksWide == 2
\* update_metadata calls in progress at once on one shadow master.
MaxUpdateCalls == 2
\* Highest chunk version in a snapshot sent to a shadow master in SpecShadow.
MaxSnapshotVersion == 1
\* Chunkservers whose chunk files are followed.
NumDataServers == 2

\* Heartbeats of one sender that are counted.
MaxDelivered == 2

\* Calls of AssignChunks and DeleteFile beside the delete command of a client.
MaxClientCalls == 3

\* ------------------------------------------------- configuration (config.rs)

chunk_size == 2
max_allowed_chunks == 2
replication_factor == 2
heartbeat_interval == 1
heartbeat_failure_threshold == 1

\* ---------------------------------------------------------------- universe

AllServers == <<"A", "B", "C", "D", "E", "F">>

Servers == {AllServers[i] : i \in 1..NumServers}

\* String order of the addresses (Ord for String in the heap's (usize, String)).
AddrRank(a) == CHOOSE i \in 1..Len(AllServers) : AllServers[i] = a

\* The master node that starts with is_leader = true.
Leader == "L"

\* The other master nodes: they ping the leader and hold a copy of its maps.
Shadows == {"S1", "S2"}

MasterNodes == {Leader} \cup Shadows

\* The shadow master whose update_metadata calls are followed step by step.
FirstShadow == "S1"

\* The update_metadata calls that may be in progress at once.
UpdateCalls == 1..MaxUpdateCalls

\* File names a client passes to AssignChunks and DeleteFile.
FileNames == {<<"f">>, <<"f", "-", "1">>}

\* A chunk name a chunkserver may report that the master never assigned.
UnknownChunk == <<"x", "_chunk_", "0">>

FileSizes == 0..MaxFileSize

\* ----------------------------------------------------------------- strings

Range(s) == {s[i] : i \in 1..Len(s)}

\* Decimal formatting of an integer ({} of a number in format!): one token per digit.
Digit(d) == CASE d = 0 -> "0" [] d = 1 -> "1" [] d = 2 -> "2" [] d = 3 -> "3"
              [] d = 4 -> "4" [] d = 5 -> "5" [] d = 6 -> "6" [] d = 7 -> "7"
              [] d = 8 -> "8" [] d = 9 -> "9"

RECURSIVE Dec(_)
Dec(n) == IF n < 10 THEN <<Digit(n)>> ELSE Dec(n \div 10) \o <<Digit(n % 10)>>

\* format!("{}-{}", file_name, suffix)
SuffixedName(file_name, suffix) == file_name \o <<"-">> \o Dec(suffix)

\* format!("{}_chunk_{}", updated_file_name, chunk_index)
ChunkIdOf(name, chunk_index) == name \o <<"_chunk_">> \o Dec(chunk_index)

\* chunk_id.split("_chunk_").next(): the text before the first "_chunk_".
FileNameOfChunk(chunk_id) ==
  IF \E i \in 1..Len(chunk_id) : chunk_id[i] = "_chunk_"
  THEN LET i == CHOOSE i \in 1..Len(chunk_id) :
                  /\ chunk_id[i] = "_chunk_"
                  /\ \A j \in 1..(i - 1) : chunk_id[j] # "_chunk_"
       IN  SubSeq(chunk_id, 1, i - 1)
  ELSE chunk_id

\* str::starts_with
StartsWith(s, p) == Len(s) >= Len(p) /\ SubSeq(s, 1, Len(p)) = p

\* -------------------------------------------------------------------- maps

EmptyMap == [x \in {} |-> x]

\* HashMap::insert
MapInsert(m, k, v) == [x \in (DOMAIN m) \cup {k} |-> IF x = k THEN v ELSE m[x]]

\* HashMap::remove
MapRemove(m, k) == [x \in (DOMAIN m) \ {k} |-> m[x]]

ChunkInfo(chunk_id, server_addresses, version) ==
  [chunk_id |-> chunk_id, server_addresses |-> server_addresses, version |-> version]

\* ------------------------------------------------------------------- state

VARIABLES
  file_chunks,          \* file name -> Vec<ChunkInfo>
  chunk_servers,        \* chunkserver address -> Vec<ChunkInfo> (the load)
  chunk_map,            \* chunk id -> ChunkInfo
  last_heartbeat_time,  \* chunkserver address -> seconds
  shadow_masters,       \* addresses that pinged this leader
  shadow_meta,          \* per shadow master: its file_chunks, chunk_servers, chunk_map
  um_calls,             \* the update_metadata calls in progress on the first shadow master
  alive,                \* the master processes that run
  is_leader_flag,       \* master node -> is_leader_flag
  current_master,       \* master node -> current_master
  guards,               \* the handler holding the write guards of the three maps
  call,                 \* the client call being handled, with the response it built
  hb_waiting,           \* per chunkserver: the Heartbeat waiting for chunk_servers.write()
  now,                  \* SystemTime::now() in seconds
  ncalls,               \* client calls so far
  chk_pc,               \* heartbeat checker: "idle" between passes, "repair" within one
  failed_servers,       \* the pass's failed_servers, in iteration order
  chk_i,                \* index of the next failed server to handle
  chk_changed,          \* the pass in progress has changed one of the three maps
  chk_now,              \* the checker's `now`, read at the start of a pass
  blobs,                \* chunkserver -> (chunk file name -> content)
  server_chunks,        \* chunkserver -> server_chunks, the names it reports
  otp_store,            \* chunkserver -> (OTP -> expiration time)
  rpc,                  \* the last request a chunkserver handled, with its answer
  cl,                   \* the client's delete command: position and placement
  ping,                 \* a ping_master request in progress on a master node
  shadow_set,           \* shadow master node -> its own shadow_masters
  sender,               \* chunkserver -> its heartbeat task: state and master
  tasks,                \* master node -> its ping loop, its checkers started
  dl                    \* a determine_leader call of a starting master node

vars == <<file_chunks, chunk_servers, chunk_map, last_heartbeat_time, shadow_masters,
          shadow_meta, um_calls, alive, is_leader_flag, current_master, guards, call,
          hb_waiting, now, ncalls, chk_pc, failed_servers, chk_i, chk_changed,
          chk_now, blobs, server_chunks, otp_store, rpc, cl, ping, shadow_set,
          sender, tasks, dl>>

meta == <<file_chunks, chunk_servers, chunk_map>>

checker == <<chk_pc, failed_servers, chk_i, chk_changed, chk_now>>

nodes == <<alive, is_leader_flag, current_master, tasks, dl>>

chunkstore == <<blobs, server_chunks, otp_store, rpc>>

\* What the master's handlers and its checker's bookkeeping leave alone.
ext == <<chunkstore, cl, ping, shadow_set, sender>>

\* The state of the leader and of the master nodes.
masters == <<file_chunks, chunk_servers, chunk_map, last_heartbeat_time,
             shadow_masters, shadow_meta, um_calls, nodes, guards, call, hb_waiting,
             now, ncalls, checker>>

NoCall == [op |-> "none", file_name |-> <<>>, file_size |-> 0, state |-> "none",
           resp_name |-> <<>>, resp_chunks |-> <<>>]

NoHeartbeat == <<<<"none">>>>

\* Metadata with three empty maps.
EmptyMetadata == [file_chunks |-> EmptyMap, chunk_servers |-> EmptyMap,
                  chunk_map |-> EmptyMap]

NoUpdate == [pc |-> "none", metadata |-> EmptyMetadata]

\* No request handled by a chunkserver yet.
NoRpc == [op |-> "none", server |-> "", stream |-> <<>>, name |-> <<>>,
          target |-> "", otp |-> "",
          is_internal |-> FALSE, status |-> "none", content |-> <<>>]

\* The client before its delete command.
NoClient == [pc |-> "idle", file_name |-> <<>>, addresses |-> <<>>, deleted |-> {},
             content |-> <<>>, result |-> <<>>, success |-> "none"]

\* No determine_leader call yet.
NoElection == [pc |-> "none", self_addr |-> "", i |-> 1, leader |-> ""]

\* No ping_master request in progress.
NoPing == [pc |-> "none", node |-> "", sender_address |-> "", is_leader |-> FALSE]

Init ==
  /\ file_chunks = EmptyMap
  /\ chunk_servers = EmptyMap
  /\ chunk_map = EmptyMap
  /\ last_heartbeat_time = EmptyMap
  /\ shadow_masters = {}
  /\ shadow_meta = [m \in Shadows |-> EmptyMetadata]
  /\ um_calls = [c \in UpdateCalls |-> NoUpdate]
  /\ alive = MasterNodes
  /\ is_leader_flag = [n \in MasterNodes |-> n = Leader]
  /\ current_master = [n \in MasterNodes |-> Leader]
  /\ guards = "none"
  /\ call = NoCall
  /\ hb_waiting = [s \in Servers |-> NoHeartbeat]
  /\ now = 0
  /\ ncalls = 0
  /\ chk_pc = "idle"
  /\ failed_servers = <<>>
  /\ chk_i = 1
  /\ chk_changed = FALSE
  /\ chk_now = 0
  /\ blobs = [s \in Servers |-> EmptyMap]
  /\ server_chunks = [s \in Servers |-> {}]
  /\ otp_store = [s \in Servers |-> EmptyMap]
  /\ rpc = NoRpc
  /\ cl = NoClient
  /\ ping = NoPing
  /\ shadow_set = [n \in Shadows |-> {}]
  /\ sender = [s \in Servers |-> [pc |-> "running", master |-> Leader,
                                   delivered |-> 0]]
  /\ tasks = [n \in MasterNodes |->
                IF n = Leader THEN [ping |-> "none", checkers |-> 1]
                ELSE [ping |-> "running", checkers |-> 0]]
  /\ dl = NoElection

\* ------------------------------------------------------ RegisterChunkServer

\* chunk_servers.write() waits while a handler holds the guard.
RegisterChunkServer(address) ==
  /\ guards = "none"
  /\ chunk_servers' = MapInsert(chunk_servers, address, <<>>)
  /\ UNCHANGED <<file_chunks, chunk_map, last_heartbeat_time, shadow_masters, shadow_meta, um_calls, nodes, guards,
                 call, hb_waiting, now, ncalls, checker,
                 ext>>

\* ---------------------------------------------------------------- Heartbeat

\* A list rebuilt without the skip, for comparison: a name that is not a key of
\* chunk_map gets a fresh ChunkInfo.
RECURSIVE CollectedChunksUnskipped(_, _)
CollectedChunksUnskipped(chunks, cm) ==
  IF chunks = <<>> THEN <<>>
  ELSE LET rest == CollectedChunksUnskipped(Tail(chunks), cm)
       IN  IF Head(chunks) \in DOMAIN cm THEN <<cm[Head(chunks)]>> \o rest
           ELSE <<ChunkInfo(Head(chunks), <<>>, 0)>> \o rest

\* The ChunkInfo list rebuilt from the reported chunk names: names that are not
\* keys of chunk_map are skipped.
RECURSIVE CollectedChunks(_, _)
CollectedChunks(chunks, cm) ==
  IF chunks = <<>> THEN <<>>
  ELSE LET rest == CollectedChunks(Tail(chunks), cm)
       IN  IF Head(chunks) \in DOMAIN cm THEN <<cm[Head(chunks)]>> \o rest ELSE rest

\* Chunk lists a heartbeat may carry: duplicate-free lists of assigned chunk
\* names and of one name the master does not know.
HeartbeatChunkLists ==
  LET ids == (DOMAIN chunk_map) \cup {UnknownChunk}
  IN  {<<>>} \cup {<<c>> : c \in ids}
      \cup (IF MaxHbChunks >= 2
            THEN {<<c, d>> : <<c, d>> \in {p \in ids \X ids : p[1] # p[2]}}
            ELSE {})

\* The chunk lists of up to MaxHbChunksWide names a HeartbeatRequest may carry
\* (SpecHeartbeat): `chunks` is a list, so a name may occur twice in it.
HeartbeatChunkListsWide ==
  LET ids == (DOMAIN chunk_map) \cup {UnknownChunk}
  IN  UNION {[1..n -> ids] : n \in 0..MaxHbChunksWide}

\* For comparison: a load to which the rebuilt list is appended.
HeartbeatLoadAppended(cs, cm, address, chunks) ==
  MapInsert(cs, address,
            (IF address \in DOMAIN cs THEN cs[address] ELSE <<>>)
              \o CollectedChunks(chunks, cm))

\* chunk_servers.insert(chunkserver_address, chunk_info_list): the load of the
\* address is replaced by the list rebuilt from the reported chunk names.
HeartbeatLoad(cs, cm, address, chunks) ==
  MapInsert(cs, address, CollectedChunks(chunks, cm))

\* The whole handler when no guard is held: stamp, then replace the load.
\* When AssignChunks or DeleteFile holds the guards, the handler stamps and then
\* waits in chunk_servers.write().
Heartbeat(address, chunks) ==
  /\ hb_waiting[address] = NoHeartbeat
  /\ last_heartbeat_time' = MapInsert(last_heartbeat_time, address, now)
  /\ IF guards = "none"
     THEN /\ chunk_servers' = HeartbeatLoad(chunk_servers, chunk_map, address, chunks)
          /\ UNCHANGED hb_waiting
     ELSE /\ hb_waiting' = [hb_waiting EXCEPT ![address] = chunks]
          /\ UNCHANGED chunk_servers
  /\ UNCHANGED <<file_chunks, chunk_map, shadow_masters, shadow_meta, um_calls, nodes, guards, call, now, ncalls,
                 checker,
                 ext>>

\* A waiting Heartbeat gets chunk_servers.write() after the guards were released.
HeartbeatResume(address) ==
  /\ guards = "none"
  /\ hb_waiting[address] # NoHeartbeat
  /\ chunk_servers' =
       HeartbeatLoad(chunk_servers, chunk_map, address, hb_waiting[address])
  /\ hb_waiting' = [hb_waiting EXCEPT ![address] = NoHeartbeat]
  /\ UNCHANGED <<file_chunks, chunk_map, last_heartbeat_time, shadow_masters, shadow_meta, um_calls, nodes, guards,
                 call, now, ncalls, checker,
                 ext>>

\* ------------------------------------------------- BinaryHeap<Reverse<(usize, String)>>

\* Order of (load, addr): by load, then by address.
HeapLess(x, y) == x[1] < y[1] \/ (x[1] = y[1] /\ AddrRank(x[2]) < AddrRank(y[2]))

\* BinaryHeap::pop on a heap of Reverse(..): the least (load, addr).
HeapPop(queue) == CHOOSE m \in queue : \A o \in queue \ {m} : HeapLess(m, o)

\* The heap built from a map address -> Vec<ChunkInfo>.
ServerQueue(servers) == {<<Len(servers[a]), a>> : a \in DOMAIN servers}

\* ------------------------------------------------------------- AssignChunks

\* while file_chunks.contains_key(&updated_file_name) { format!("{}-{}", ..) }
RECURSIVE UpdatedFileName(_, _, _, _)
UpdatedFileName(fc, file_name, updated_file_name, suffix) ==
  IF updated_file_name \in DOMAIN fc
  THEN UpdatedFileName(fc, file_name, SuffixedName(file_name, suffix), suffix + 1)
  ELSE updated_file_name

\* For comparison: the filter with <= in place of <.
AvailChunkServersAtMost(cs) ==
  [a \in {a \in DOMAIN cs : Len(cs[a]) <= max_allowed_chunks} |-> cs[a]]

\* The servers with fewer than max_allowed_chunks chunks, with their chunk lists.
AvailChunkServers(cs) ==
  [a \in {a \in DOMAIN cs : Len(cs[a]) < max_allowed_chunks} |-> cs[a]]

\* (file_size + chunk_size - 1) / chunk_size
NumChunks(file_size) == (file_size + chunk_size - 1) \div chunk_size

\* For comparison: a selection loop without the check for a repeated server.
RECURSIVE AssignSelectRepeating(_, _)
AssignSelectRepeating(server_queue, selected_servers) ==
  IF Len(selected_servers) >= replication_factor \/ server_queue = {}
  THEN selected_servers
  ELSE LET top == HeapPop(server_queue)
       IN  AssignSelectRepeating((server_queue \ {top}) \cup {<<top[1] + 1, top[2]>>},
                                 Append(selected_servers, top[2]))

\* The selection loop of assign_chunks: pop the least loaded server, stop at a
\* server that is already selected, push it back with load + 1.
RECURSIVE AssignSelect(_, _)
AssignSelect(server_queue, selected_servers) ==
  IF Len(selected_servers) >= replication_factor \/ server_queue = {}
  THEN selected_servers
  ELSE LET top == HeapPop(server_queue)
       IN  IF top[2] \in Range(selected_servers)
           THEN selected_servers
           ELSE AssignSelect((server_queue \ {top}) \cup {<<top[1] + 1, top[2]>>},
                             Append(selected_servers, top[2]))

\* chunks.push(chunk_info) for each selected server that has a load entry.
PushToServers(cs, servers, chunk_info) ==
  [a \in DOMAIN cs |->
     IF a \in Range(servers) THEN Append(cs[a], chunk_info) ELSE cs[a]]

\* The body of "for chunk_index in 0..num_chunks": st holds the three maps and
\* assigned_chunks; avail_chunk_servers is the filtered copy made before the loop.
RECURSIVE AssignLoop(_, _, _, _, _, _)
AssignLoop(chunk_index, num_chunks, file_name, updated_file_name, avail, st) ==
  IF chunk_index >= num_chunks THEN st
  ELSE LET selected_servers == AssignSelect(ServerQueue(avail), <<>>)
           chunk_info == ChunkInfo(ChunkIdOf(updated_file_name, chunk_index),
                                   selected_servers, 0)
       IN  AssignLoop(chunk_index + 1, num_chunks, file_name, updated_file_name, avail,
             [fc |-> MapInsert(st.fc, file_name, <<chunk_info>>),
              cs |-> PushToServers(st.cs, selected_servers, chunk_info),
              cm |-> MapInsert(st.cm, chunk_info.chunk_id, chunk_info),
              assigned_chunks |-> Append(st.assigned_chunks, chunk_info)])

\* assign_chunks up to the call of propagate_metadata_updates.
AssignResult(file_name, file_size) ==
  AssignLoop(0, NumChunks(file_size), file_name,
             UpdatedFileName(file_chunks, file_name, file_name, 1),
             AvailChunkServers(chunk_servers),
             [fc |-> file_chunks, cs |-> chunk_servers, cm |-> chunk_map,
              assigned_chunks |-> <<>>])

\* The handler takes the three write guards, fails with Internal when no server
\* is available, and otherwise changes the maps and calls
\* propagate_metadata_updates with the guards still held: collect_metadata then
\* awaits file_chunks.read(), which the handler's own write guard never grants.
AssignChunks(file_name, file_size) ==
  /\ guards = "none"
  /\ ncalls' = ncalls + 1
  /\ IF DOMAIN AvailChunkServers(chunk_servers) = {}
     THEN /\ call' = [op |-> "assign", file_name |-> file_name, file_size |-> file_size,
                      state |-> "internal_error", resp_name |-> <<>>,
                      resp_chunks |-> <<>>]
          /\ UNCHANGED <<file_chunks, chunk_servers, chunk_map, guards>>
     ELSE LET r == AssignResult(file_name, file_size)
          IN  /\ file_chunks' = r.fc
              /\ chunk_servers' = r.cs
              /\ chunk_map' = r.cm
              /\ guards' = "assign"
              /\ call' = [op |-> "assign", file_name |-> file_name,
                          file_size |-> file_size, state |-> "propagating",
                          resp_name |->
                            UpdatedFileName(file_chunks, file_name, file_name, 1),
                          resp_chunks |-> r.assigned_chunks]
  /\ UNCHANGED <<last_heartbeat_time, shadow_masters, shadow_meta, um_calls, nodes, hb_waiting, now, checker,
                 ext>>

\* --------------------------------------------------------------- DeleteFile

\* server_chunks.retain(|chunk| chunk.chunk_id != chunk_id), and the entry is
\* removed when it became empty.
RECURSIVE RemoveFromServers(_, _, _)
RemoveFromServers(cs, servers, chunk_id) ==
  IF servers = <<>> THEN cs
  ELSE LET server == Head(servers)
       IN  IF server \in DOMAIN cs
           THEN LET kept == SelectSeq(cs[server], LAMBDA c : c.chunk_id # chunk_id)
                IN  RemoveFromServers(
                      IF kept = <<>> THEN MapRemove(cs, server)
                                     ELSE MapInsert(cs, server, kept),
                      Tail(servers), chunk_id)
           ELSE RemoveFromServers(cs, Tail(servers), chunk_id)

\* "for chunk_info in &chunks" of delete_file.
RECURSIVE DeleteLoop(_, _)
DeleteLoop(chunks, st) ==
  IF chunks = <<>> THEN st
  ELSE LET chunk_info == Head(chunks)
       IN  DeleteLoop(Tail(chunks),
             [cs |-> RemoveFromServers(st.cs, chunk_info.server_addresses,
                                       chunk_info.chunk_id),
              cm |-> MapRemove(st.cm, chunk_info.chunk_id)])

\* For comparison: a handler that takes an unknown file for a file without
\* chunks and goes on to propagate_metadata_updates.
DeleteFileAsKnown(file_name) ==
  /\ guards = "none"
  /\ ncalls' = ncalls + 1
  /\ LET chunks == IF file_name \in DOMAIN file_chunks THEN file_chunks[file_name]
                   ELSE <<>>
         r == DeleteLoop(chunks, [cs |-> chunk_servers, cm |-> chunk_map])
     IN  /\ file_chunks' = MapRemove(file_chunks, file_name)
         /\ chunk_servers' = r.cs
         /\ chunk_map' = r.cm
         /\ guards' = "delete"
         /\ call' = [op |-> "delete", file_name |-> file_name, file_size |-> 0,
                     state |-> "propagating", resp_name |-> <<>>,
                     resp_chunks |-> chunks]
  /\ UNCHANGED <<last_heartbeat_time, shadow_masters, shadow_meta, um_calls, nodes,
                 hb_waiting, now, checker,
                 ext>>

\* A known file: the maps are changed and propagate_metadata_updates is called
\* with the guards held (as in AssignChunks). An unknown file: success = false.
DeleteFileHandler(file_name) ==
  /\ guards = "none"
  /\ ncalls' = ncalls + 1
  /\ IF file_name \in DOMAIN file_chunks
     THEN LET r == DeleteLoop(file_chunks[file_name],
                              [cs |-> chunk_servers, cm |-> chunk_map])
          IN  /\ file_chunks' = MapRemove(file_chunks, file_name)
              /\ chunk_servers' = r.cs
              /\ chunk_map' = r.cm
              /\ guards' = "delete"
              /\ call' = [op |-> "delete", file_name |-> file_name, file_size |-> 0,
                          state |-> "propagating", resp_name |-> <<>>,
                          resp_chunks |-> file_chunks[file_name]]
     ELSE /\ call' = [op |-> "delete", file_name |-> file_name, file_size |-> 0,
                      state |-> "not_found", resp_name |-> <<>>, resp_chunks |-> <<>>]
          /\ UNCHANGED <<file_chunks, chunk_servers, chunk_map, guards>>
  /\ UNCHANGED <<last_heartbeat_time, shadow_masters, shadow_meta, um_calls, nodes,
                 hb_waiting, now, checker>>

\* DeleteFile from a caller the model does not follow.
DeleteFile(file_name) ==
  /\ DeleteFileHandler(file_name)
  /\ UNCHANGED ext

\* The caller gives up on a call that waits in collect_metadata: the handler's
\* future is dropped and with it the three write guards; no response was sent.
DropCall ==
  /\ guards # "none"
  /\ guards' = "none"
  /\ call' = NoCall
  /\ UNCHANGED <<file_chunks, chunk_servers, chunk_map, last_heartbeat_time,
                 shadow_masters, shadow_meta, um_calls, nodes, hb_waiting, now, ncalls, checker,
                 ext>>

\* get_file_chunks: the recorded list, or NotFound.
GetFileChunks(file_name) ==
  IF file_name \in DOMAIN file_chunks THEN file_chunks[file_name] ELSE <<"NotFound">>

\* ------------------------------------------------- shadow masters, propagation

\* ping_master on the leader: the sender joins shadow_masters.
PingMaster(sender_address) ==
  /\ shadow_masters' = shadow_masters \cup {sender_address}
  /\ UNCHANGED <<file_chunks, chunk_servers, chunk_map, last_heartbeat_time, shadow_meta, um_calls, nodes,
                 guards, call, hb_waiting, now, ncalls, checker,
                 ext>>

\* collect_metadata: the three read guards, granted when no write guard is held.
CollectMetadata ==
  [file_chunks |-> file_chunks, chunk_servers |-> chunk_servers, chunk_map |-> chunk_map]

\* update_metadata on a shadow master: its three maps are replaced.
UpdateMetadata(sm, m, metadata) == [sm EXCEPT ![m] = metadata]

RECURSIVE SendToShadowMasters(_, _, _)
SendToShadowMasters(sm, targets, metadata) ==
  IF targets = {} THEN sm
  ELSE LET m == CHOOSE m \in targets : TRUE
       IN  SendToShadowMasters(IF m \in DOMAIN sm THEN UpdateMetadata(sm, m, metadata)
                                                 ELSE sm,
                               targets \ {m}, metadata)

\* propagate_metadata_updates and the return of the handler that called it. The
\* read guards of collect_metadata need guards = "none", and the handlers call it
\* with guards = "assign" or "delete": the step is in no specification's
\* next-state relation because it is never enabled (PropagateNeverEnabled).
PropagateMetadataUpdates ==
  /\ call.state = "propagating"
  /\ guards = "none"
  /\ shadow_meta' = SendToShadowMasters(shadow_meta, shadow_masters, CollectMetadata)
  /\ call' = [call EXCEPT !.state = "returned"]
  /\ UNCHANGED <<file_chunks, chunk_servers, chunk_map, last_heartbeat_time,
                 shadow_masters, um_calls, nodes, guards, hb_waiting, now, ncalls,
                 checker,
                 ext>>

\* A handler that reached propagate_metadata_updates holds the write guards, so
\* the read guards of collect_metadata are never granted to it.
PropagateNeverEnabled == ~(call.state = "propagating" /\ guards = "none")

\* ---------------------------------------------- update_metadata on a shadow

\* The Metadata a shadow master receives: one file of one chunk on server A, in
\* the versions 0..MaxSnapshotVersion.
Snapshot(v) ==
  LET chunk_info == ChunkInfo(ChunkIdOf(<<"f">>, 0), <<"A">>, v)
  IN  [file_chunks |-> MapInsert(EmptyMap, <<"f">>, <<chunk_info>>),
       chunk_servers |-> MapInsert(EmptyMap, "A", <<chunk_info>>),
       chunk_map |-> MapInsert(EmptyMap, chunk_info.chunk_id, chunk_info)]

Snapshots == {Snapshot(v) : v \in 0..MaxSnapshotVersion}

\* update_metadata: the request is unwrapped.
UpdateMetadataBegin(c, metadata) ==
  /\ um_calls[c].pc = "none"
  /\ um_calls' = [um_calls EXCEPT ![c] = [pc |-> "file_chunks", metadata |-> metadata]]
  /\ UNCHANGED <<file_chunks, chunk_servers, chunk_map, last_heartbeat_time,
                 shadow_masters, shadow_meta, nodes, guards, call, hb_waiting, now,
                 ncalls, checker,
                 ext>>

\* The first block: file_chunks.write() is taken, the map replaced, the guard
\* released.
UpdateFileChunks(c) ==
  /\ um_calls[c].pc = "file_chunks"
  /\ shadow_meta' = [shadow_meta EXCEPT
                       ![FirstShadow].file_chunks = um_calls[c].metadata.file_chunks]
  /\ um_calls' = [um_calls EXCEPT ![c].pc = "chunk_servers"]
  /\ UNCHANGED <<file_chunks, chunk_servers, chunk_map, last_heartbeat_time,
                 shadow_masters, nodes, guards, call, hb_waiting, now, ncalls, checker,
                 ext>>

\* The second block: the same with chunk_servers.
UpdateChunkServers(c) ==
  /\ um_calls[c].pc = "chunk_servers"
  /\ shadow_meta' = [shadow_meta EXCEPT
                       ![FirstShadow].chunk_servers = um_calls[c].metadata.chunk_servers]
  /\ um_calls' = [um_calls EXCEPT ![c].pc = "chunk_map"]
  /\ UNCHANGED <<file_chunks, chunk_servers, chunk_map, last_heartbeat_time,
                 shadow_masters, nodes, guards, call, hb_waiting, now, ncalls, checker,
                 ext>>

\* The third block: the same with chunk_map; the handler then prints and returns.
UpdateChunkMap(c) ==
  /\ um_calls[c].pc = "chunk_map"
  /\ shadow_meta' = [shadow_meta EXCEPT
                       ![FirstShadow].chunk_map = um_calls[c].metadata.chunk_map]
  /\ um_calls' = [um_calls EXCEPT ![c] = NoUpdate]
  /\ UNCHANGED <<file_chunks, chunk_servers, chunk_map, last_heartbeat_time,
                 shadow_masters, nodes, guards, call, hb_waiting, now, ncalls, checker,
                 ext>>

\* --------------------------------------------------------------- chunkserver

\* common_config.use_authentication, in the setting the OTP gate is for.
use_authentication == TRUE

\* The bytes of chunk contents.
Bytes == {"a", "b"}

\* The chunkservers that store chunk files.
DataServers == {AllServers[i] : i \in 1..NumDataServers}

\* File names in chunkserver requests; one of them contains "_chunk_".
DataFileNames == {<<"f">>, <<"g", "_chunk_", "h">>}

\* The OTP of a request: the client sends "" when it has none.
OtpValues == {"", "otp"}

\* For comparison: a validation that accepts an OTP up to and at its expiration
\* time.
ValidateOtpAtExpiry(auth, store, otp, t) ==
  \/ ~auth
  \/ otp \in DOMAIN store /\ store[otp] >= t

\* validate_otp under a configuration with use_authentication = auth: passes
\* without authentication, and with it for an OTP of the table whose expiration
\* time is after now.
ValidateOtpWith(auth, store, otp, t) ==
  \/ ~auth
  \/ otp \in DOMAIN store /\ store[otp] > t

\* validate_otp under the configuration of the model.
ValidateOtp(store, otp, t) == ValidateOtpWith(use_authentication, store, otp, t)

\* One call of validate_otp on a chunkserver whose configuration has
\* use_authentication = auth; the request and the verdict are kept in rpc.
OtpValidate(server, otp, auth) ==
  /\ rpc' = [op |-> "validate_otp", server |-> server, stream |-> <<>>, name |-> <<>>,
             target |-> "", otp |-> otp, is_internal |-> FALSE,
             status |-> IF ValidateOtpWith(auth, otp_store[server], otp, now)
                        THEN "ok" ELSE "unauthenticated",
             content |-> <<>>, use_authentication |-> auth]
  /\ UNCHANGED <<masters, blobs, server_chunks, otp_store, cl, ping, shadow_set, sender>>

\* One round of the task of start_otp_cleanup:
\* retain(|_, expiration| *expiration > now).
OtpCleanup(server) ==
  /\ otp_store' = [otp_store EXCEPT ![server] =
                     [o \in {o \in DOMAIN @ : @[o] > now} |-> @[o]]]
  /\ UNCHANGED <<masters, blobs, server_chunks, rpc, cl, ping, shadow_set, sender>>

IsDigit(c) == c \in {"0", "1", "2", "3", "4", "5", "6", "7", "8", "9"}

DigitValue(c) == CHOOSE d \in 0..9 : Digit(d) = c

\* str::parse::<u64>: the value of a non-empty text of digits, -1 for Err.
RECURSIVE ParseDigits(_, _)
ParseDigits(s, acc) ==
  IF s = <<>> THEN acc
  ELSE IF IsDigit(Head(s)) THEN ParseDigits(Tail(s), acc * 10 + DigitValue(Head(s)))
       ELSE -1

ParseU64(s) == IF s = <<>> THEN -1 ELSE ParseDigits(s, 0)

\* The messages of an Upload stream: file info, payload, or neither.
InfoMsg(file_name, chunk_id) ==
  [kind |-> "info", file_name |-> file_name, chunk_id |-> chunk_id, data |-> <<>>]

ChunkMsg(data) == [kind |-> "chunk", file_name |-> <<>>, chunk_id |-> 0, data |-> data]

NoneMsg == [kind |-> "none", file_name |-> <<>>, chunk_id |-> 0, data |-> <<>>]

\* `file: Option<File>` of upload before the info message.
NoFile == <<>>

\* The loop of upload over the messages of the stream: the info message creates
\* (truncates) the chunk file and inserts its name into server_chunks, a payload
\* is written to the file of the last info message.
RECURSIVE UploadRun(_, _)
UploadRun(stream, st) ==
  IF stream = <<>> THEN [st EXCEPT !.status = "Ok"]
  ELSE LET req == Head(stream)
       IN  CASE req.kind = "info" ->
                  LET chunk_name == ChunkIdOf(req.file_name, req.chunk_id)
                  IN  UploadRun(Tail(stream),
                                [bl |-> MapInsert(st.bl, chunk_name, <<>>),
                                 held |-> st.held \cup {chunk_name},
                                 file |-> chunk_name,
                                 status |-> st.status])
             [] req.kind = "chunk" ->
                  IF st.file = NoFile
                  THEN [st EXCEPT !.status = "InvalidArgument"]
                  ELSE UploadRun(Tail(stream),
                                 [st EXCEPT !.bl = MapInsert(st.bl, st.file,
                                                             st.bl[st.file] \o req.data)])
             [] OTHER -> [st EXCEPT !.status = "InvalidArgument"]

\* upload on one chunkserver's files and server_chunks.
UploadOn(bl, held, stream) ==
  UploadRun(stream, [bl |-> bl, held |-> held, file |-> NoFile, status |-> "none"])

\* The Upload streams of the requests: empty, without info, with a message that
\* is neither, info alone, info and one payload.
UploadStreams ==
  {<<>>, <<NoneMsg>>, <<ChunkMsg(<<"a">>)>>}
    \cup {<<InfoMsg(f, 0)>> : f \in DataFileNames}
    \cup {<<InfoMsg(f, 0), ChunkMsg(<<"a">>)>> : f \in DataFileNames}

\* upload: the handler reads neither otp nor is_internal of the request.
ChunkUpload(server, stream, otp, is_internal) ==
  /\ LET r == UploadOn(blobs[server], server_chunks[server], stream)
     IN  /\ blobs' = [blobs EXCEPT ![server] = r.bl]
         /\ server_chunks' = [server_chunks EXCEPT ![server] = r.held]
         /\ rpc' = [op |-> "upload", server |-> server, stream |-> stream,
                    name |-> <<>>, target |-> "", otp |-> otp, is_internal |-> is_internal,
                    status |-> r.status, content |-> <<>>]
  /\ UNCHANGED <<masters, otp_store, cl, ping, shadow_set, sender>>

\* read: at most chunk_size bytes of the chunk file; Internal when it cannot be
\* opened.
ReadOn(bl, file_name, chunk_id) ==
  LET chunk_name == ChunkIdOf(file_name, chunk_id)
  IN  IF chunk_name \in DOMAIN bl
      THEN [status |-> "Ok",
            content |-> SubSeq(bl[chunk_name], 1,
                               IF Len(bl[chunk_name]) < chunk_size
                               THEN Len(bl[chunk_name]) ELSE chunk_size)]
      ELSE [status |-> "Internal", content |-> <<>>]

ChunkRead(server, file_name, chunk_id, otp) ==
  /\ LET r == ReadOn(blobs[server], file_name, chunk_id)
     IN  rpc' = [op |-> "read", server |-> server, stream |-> <<>>,
                 name |-> ChunkIdOf(file_name, chunk_id), target |-> "", otp |-> otp,
                 is_internal |-> FALSE, status |-> r.status, content |-> r.content]
  /\ UNCHANGED <<masters, blobs, server_chunks, otp_store, cl, ping, shadow_set, sender>>

\* The effect of delete on one chunkserver: remove_file, then the name leaves
\* server_chunks; Internal, and nothing changed, when the file cannot be removed.
DeleteOn(bl, held, chunk_name) ==
  IF chunk_name \in DOMAIN bl
  THEN [bl |-> MapRemove(bl, chunk_name), held |-> held \ {chunk_name}, status |-> "Ok"]
  ELSE [bl |-> bl, held |-> held, status |-> "Internal"]

\* delete
ChunkDelete(server, file_name, chunk_id, otp) ==
  /\ LET chunk_name == ChunkIdOf(file_name, chunk_id)
         r == DeleteOn(blobs[server], server_chunks[server], chunk_name)
     IN  /\ blobs' = [blobs EXCEPT ![server] = r.bl]
         /\ server_chunks' = [server_chunks EXCEPT ![server] = r.held]
         /\ rpc' = [op |-> "delete", server |-> server, stream |-> <<>>,
                    name |-> chunk_name, target |-> "", otp |-> otp, is_internal |-> FALSE,
                    status |-> r.status, content |-> <<>>]
  /\ UNCHANGED <<masters, otp_store, cl, ping, shadow_set, sender>>

\* append: the chunk file is opened with File::open, that is for reading, and
\* write_all hands the data to the file's write buffer; the write itself fails
\* in the background and the file is dropped without a flush.
ChunkAppend(server, file_name, chunk_id, data, otp) ==
  /\ LET chunk_name == ChunkIdOf(file_name, chunk_id)
     IN  rpc' = [op |-> "append", server |-> server, stream |-> <<>>,
                 name |-> chunk_name, target |-> "", otp |-> otp, is_internal |-> FALSE,
                 status |-> IF chunk_name \in DOMAIN blobs[server] THEN "Ok"
                            ELSE "Internal",
                 content |-> data]
  /\ UNCHANGED <<masters, blobs, server_chunks, otp_store, cl, ping, shadow_set, sender>>

\* chunk_name.split_once("_chunk_") and the parse of the part after it: the
\* FileInfo transfer_chunk sends. A name without "_chunk_" gives ("", 0), a part
\* that is no number gives chunk_id 0.
TransferInfo(chunk_name) ==
  IF \E i \in 1..Len(chunk_name) : chunk_name[i] = "_chunk_"
  THEN LET i == CHOOSE i \in 1..Len(chunk_name) :
                  /\ chunk_name[i] = "_chunk_"
                  /\ \A j \in 1..(i - 1) : chunk_name[j] # "_chunk_"
           id == ParseU64(SubSeq(chunk_name, i + 1, Len(chunk_name)))
       IN  InfoMsg(SubSeq(chunk_name, 1, i - 1), IF id = -1 THEN 0 ELSE id)
  ELSE InfoMsg(<<>>, 0)

\* The effect of transfer_chunk from source on the target's files and
\* server_chunks: Internal when the source cannot open the chunk file,
\* otherwise an Upload of the FileInfo and of the whole content to the target.
TransferOn(source_bl, target_bl, target_held, chunk_name) ==
  IF chunk_name \in DOMAIN source_bl
  THEN UploadOn(target_bl, target_held,
                <<TransferInfo(chunk_name), ChunkMsg(source_bl[chunk_name])>>)
  ELSE [bl |-> target_bl, held |-> target_held, file |-> NoFile, status |-> "Internal"]

\* transfer_chunk on the source server.
TransferChunk(source, chunk_name, target_address) ==
  /\ LET r == TransferOn(blobs[source], blobs[target_address],
                         server_chunks[target_address], chunk_name)
     IN  /\ blobs' = [blobs EXCEPT ![target_address] = r.bl]
         /\ server_chunks' = [server_chunks EXCEPT ![target_address] = r.held]
         /\ rpc' = [op |-> "transfer", server |-> source, stream |-> <<>>,
                    name |-> chunk_name, target |-> target_address, otp |-> "",
                    is_internal |-> TRUE,
                    status |-> r.status, content |-> <<>>]
  /\ UNCHANGED <<masters, otp_store, cl, ping, shadow_set, sender>>

\* ---------------------------------------------------------------- failover

\* The leader process exits.
LeaderExit ==
  /\ Leader \in alive
  /\ alive' = alive \ {Leader}
  /\ UNCHANGED <<file_chunks, chunk_servers, chunk_map, last_heartbeat_time,
                 shadow_masters, shadow_meta, um_calls, is_leader_flag, current_master, tasks, dl,
                 guards, call, hb_waiting, now, ncalls, checker,
                 ext>>

\* For comparison: a round that makes the node the leader whether or not the
\* connection to current_master was made.
ShadowPingEager(n) ==
  /\ n \in alive
  /\ tasks[n].ping = "running"
  /\ ~is_leader_flag[n]
  /\ is_leader_flag' = [is_leader_flag EXCEPT ![n] = TRUE]
  /\ tasks' = [tasks EXCEPT ![n] = [ping |-> "ended", checkers |-> @.checkers + 1]]
  /\ UNCHANGED <<file_chunks, chunk_servers, chunk_map, last_heartbeat_time,
                 shadow_masters, shadow_meta, um_calls, alive, current_master,
                 dl, guards, call, hb_waiting, now, ncalls, checker,
                 ext>>

\* One round of the loop of start_shadow_master_ping_task on node n: a node that
\* is the leader skips the round; a connection to current_master makes a
\* PingMaster call, whose error is logged and changes nothing; a failed
\* connection makes the node the leader, starts the heartbeat checker and ends
\* the loop.
ShadowPing(n) ==
  /\ n \in alive
  /\ tasks[n].ping = "running"
  /\ ~is_leader_flag[n]
  /\ IF current_master[n] \in alive
     THEN PingMaster(n)
     ELSE /\ is_leader_flag' = [is_leader_flag EXCEPT ![n] = TRUE]
          /\ tasks' = [tasks EXCEPT ![n] = [ping |-> "ended",
                                            checkers |-> @.checkers + 1]]
          /\ UNCHANGED <<file_chunks, chunk_servers, chunk_map, last_heartbeat_time,
                         shadow_masters, shadow_meta, um_calls, alive, current_master,
                         dl, guards, call, hb_waiting, now, ncalls, checker,
                 ext>>

\* ping_master on a node that did not start as the leader, up to the insert:
\* is_leader() is read, and a node that finds itself the leader inserts the
\* sender into its shadow_masters.
PingBegin(n, sender_address) ==
  /\ ping.pc # "respond"
  /\ n \in alive
  /\ sender_address \in alive
  /\ shadow_set' = [shadow_set EXCEPT ![n] =
                      IF is_leader_flag[n] THEN @ \cup {sender_address} ELSE @]
  /\ ping' = [pc |-> "respond", node |-> n, sender_address |-> sender_address,
              is_leader |-> FALSE]
  /\ UNCHANGED <<masters, chunkstore, cl, sender>>

\* The response of ping_master: is_leader() is read a second time.
PingRespond ==
  /\ ping.pc = "respond"
  /\ ping' = [ping EXCEPT !.pc = "answered", !.is_leader = is_leader_flag[ping.node]]
  /\ UNCHANGED <<masters, chunkstore, cl, shadow_set, sender>>

\* -------------------------------------------------------- heartbeat checker

\* now - last_time > heartbeat_failure_threshold * heartbeat_interval, on u64
\* values. With last_time above now the difference of a build without overflow
\* checks wraps to 2^64 - (last_time - now), which is above the product; a build
\* with overflow checks panics there (CheckerScan).
IsFailed(last_time, t) ==
  IF last_time <= t
  THEN t - last_time > heartbeat_failure_threshold * heartbeat_interval
  ELSE TRUE

\* The servers a pass that starts at time t classifies as failed.
FailedSet(lht, t) == {a \in DOMAIN lht : IsFailed(lht[a], t)}

\* The orders in which last_heartbeat.iter() may yield the failed servers.
Orders(S) == {o \in [1..Cardinality(S) -> S] : \A i, j \in 1..Cardinality(S) :
                                                   i # j => o[i] # o[j]}

\* For comparison: the addresses of the file's chunks named chunk_id, the failed
\* server among them.
RECURSIVE SourceServersAll(_, _, _)
SourceServersAll(chunks, chunk_id, failed_server) ==
  IF chunks = <<>> THEN <<>>
  ELSE (IF Head(chunks).chunk_id = chunk_id THEN Head(chunks).server_addresses
        ELSE <<>>)
       \o SourceServersAll(Tail(chunks), chunk_id, failed_server)

\* The addresses of the file's chunks named chunk_id, without failed_server
\* (filter_map and flatten over file_chunks[file_name]).
RECURSIVE SourceServers(_, _, _)
SourceServers(chunks, chunk_id, failed_server) ==
  IF chunks = <<>> THEN <<>>
  ELSE (IF Head(chunks).chunk_id = chunk_id
        THEN SelectSeq(Head(chunks).server_addresses, LAMBDA a : a # failed_server)
        ELSE <<>>)
       \o SourceServers(Tail(chunks), chunk_id, failed_server)

\* existing_replicas: the number of chunks of the file that have an address
\* other than failed_server.
ExistingReplicas(chunks, failed_server) ==
  Len(SelectSeq(chunks, LAMBDA c : \E a \in Range(c.server_addresses) : a # failed_server))

\* available_servers: load below max_allowed_chunks, and no chunk named chunk_id.
AvailableServers(cs, chunk_id) ==
  [a \in {a \in DOMAIN cs : /\ Len(cs[a]) < max_allowed_chunks
                            /\ \A c \in Range(cs[a]) : c.chunk_id # chunk_id}
     |-> cs[a]]

\* The selection loop of the checker: pop until needed_replicas distinct servers
\* are selected or the heap is empty; a selected server is pushed back with
\* load + 1 and dropped when it is popped again.
RECURSIVE RepairSelect(_, _, _)
RepairSelect(server_queue, selected_servers, needed_replicas) ==
  IF Len(selected_servers) >= needed_replicas \/ server_queue = {}
  THEN selected_servers
  ELSE LET top == HeapPop(server_queue)
       IN  IF top[2] \notin Range(selected_servers)
           THEN RepairSelect((server_queue \ {top}) \cup {<<top[1] + 1, top[2]>>},
                             Append(selected_servers, top[2]), needed_replicas)
           ELSE RepairSelect(server_queue \ {top}, selected_servers, needed_replicas)

\* chunk_list.iter_mut().find(|c| c.chunk_id == chunk_id): the first chunk of the
\* list with that name gets the selected servers and version + 1.
UpdateChunkList(chunk_list, chunk_id, selected_servers) ==
  IF \E i \in 1..Len(chunk_list) : chunk_list[i].chunk_id = chunk_id
  THEN LET i == CHOOSE i \in 1..Len(chunk_list) :
                  /\ chunk_list[i].chunk_id = chunk_id
                  /\ \A j \in 1..(i - 1) : chunk_list[j].chunk_id # chunk_id
       IN  [chunk_list EXCEPT ![i] = ChunkInfo(chunk_id, selected_servers,
                                               chunk_list[i].version + 1)]
  ELSE chunk_list

\* "for target_server in &selected_servers": TransferChunk on the first source
\* server toward every selected server; a failed transfer is logged.
RECURSIVE RepairTransfers(_, _, _, _)
RepairTransfers(st, source_server, chunk_id, targets) ==
  IF targets = <<>> THEN st
  ELSE LET target_server == Head(targets)
           r == TransferOn(st.bl[source_server], st.bl[target_server],
                           st.held[target_server], chunk_id)
       IN  RepairTransfers([bl |-> [st.bl EXCEPT ![target_server] = r.bl],
                            held |-> [st.held EXCEPT ![target_server] = r.held]],
                           source_server, chunk_id, Tail(targets))

\* The body of "for chunk_info in chunks_to_reassign" for one chunk; the
\* TransferChunk calls change the chunkservers' files, no master state, and
\* their results are ignored.
RepairChunk(chunk_info, failed_server, st) ==
  LET file_name == FileNameOfChunk(chunk_info.chunk_id)
      file_list == IF file_name \in DOMAIN st.fc THEN st.fc[file_name] ELSE <<>>
      source_servers == SourceServers(file_list, chunk_info.chunk_id, failed_server)
      existing_replicas == ExistingReplicas(file_list, failed_server)
      needed_replicas == replication_factor - existing_replicas
      selected_servers ==
        RepairSelect(ServerQueue(AvailableServers(st.cs, chunk_info.chunk_id)), <<>>,
                     needed_replicas)
      new_chunk_info == ChunkInfo(chunk_info.chunk_id, selected_servers,
                                  chunk_info.version + 1)
  IN  IF source_servers = <<>> \/ needed_replicas = 0 \/ selected_servers = <<>>
      THEN st
      ELSE LET t == RepairTransfers([bl |-> st.bl, held |-> st.held], source_servers[1],
                                    chunk_info.chunk_id, selected_servers)
           IN  [fc |-> [f \in DOMAIN st.fc |->
                          UpdateChunkList(st.fc[f], chunk_info.chunk_id, selected_servers)],
                cs |-> PushToServers(st.cs, selected_servers, new_chunk_info),
                cm |-> MapInsert(st.cm, chunk_info.chunk_id, new_chunk_info),
                bl |-> t.bl,
                held |-> t.held]

RECURSIVE RepairChunks(_, _, _)
RepairChunks(chunks_to_reassign, failed_server, st) ==
  IF chunks_to_reassign = <<>> THEN st
  ELSE RepairChunks(Tail(chunks_to_reassign), failed_server,
                    RepairChunk(Head(chunks_to_reassign), failed_server, st))

\* The start of a pass: the checker reads the time. The read lock of
\* last_heartbeat_time is awaited after it.
CheckerReadNow ==
  /\ chk_pc = "idle"
  /\ chk_pc' = "scan"
  /\ chk_now' = now
  /\ UNCHANGED <<file_chunks, chunk_servers, chunk_map, last_heartbeat_time,
                 shadow_masters, shadow_meta, um_calls, nodes, guards, call, hb_waiting,
                 now, ncalls, failed_servers, chk_i, chk_changed,
                 ext>>

\* The scan of last_heartbeat_time with the time read before. A pass that finds
\* no failed server ends at once. An entry stamped after the checker read the
\* time overflows the subtraction: the task panics or goes on with the wrapped
\* difference, as the build decides.
CheckerScan ==
  /\ chk_pc = "scan"
  /\ \/ /\ \E a \in DOMAIN last_heartbeat_time : last_heartbeat_time[a] > chk_now
        /\ chk_pc' = "panicked"
        /\ UNCHANGED <<failed_servers, chk_i>>
     \/ \E order \in Orders(FailedSet(last_heartbeat_time, chk_now)) :
          /\ failed_servers' = order
          /\ chk_pc' = IF order = <<>> THEN "idle" ELSE "repair"
          /\ chk_i' = 1
  /\ chk_changed' = FALSE
  /\ chk_now' = 0
  /\ UNCHANGED <<file_chunks, chunk_servers, chunk_map, last_heartbeat_time,
                 shadow_masters, shadow_meta, um_calls, nodes, guards, call, hb_waiting,
                 now, ncalls,
                 ext>>

\* A pass whose scan follows the read of the time at once, and finds a failed
\* server.
CheckerTick ==
  /\ chk_pc = "idle"
  /\ FailedSet(last_heartbeat_time, now) # {}
  /\ \E order \in Orders(FailedSet(last_heartbeat_time, now)) :
       failed_servers' = order
  /\ chk_pc' = "repair"
  /\ chk_i' = 1
  /\ chk_changed' = FALSE
  /\ UNCHANGED <<file_chunks, chunk_servers, chunk_map, last_heartbeat_time,
                 shadow_masters, shadow_meta, um_calls, nodes, guards, call, hb_waiting,
                 now, ncalls, chk_now,
                 ext>>

\* One failed server: its load entry is removed and each chunk it held is
\* repaired. Every lock the step takes waits for a handler that holds the guards.
CheckerRepair ==
  /\ chk_pc = "repair"
  /\ chk_i <= Len(failed_servers)
  /\ guards = "none"
  /\ LET failed_server == failed_servers[chk_i]
         chunks_to_reassign == IF failed_server \in DOMAIN chunk_servers
                               THEN chunk_servers[failed_server] ELSE <<>>
         r == RepairChunks(chunks_to_reassign, failed_server,
                           [fc |-> file_chunks,
                            cs |-> MapRemove(chunk_servers, failed_server),
                            cm |-> chunk_map,
                            bl |-> blobs,
                            held |-> server_chunks])
     IN  /\ file_chunks' = r.fc
         /\ chunk_servers' = r.cs
         /\ chunk_map' = r.cm
         /\ blobs' = r.bl
         /\ server_chunks' = r.held
  /\ chk_i' = chk_i + 1
  /\ chk_changed' = (chk_changed \/ meta' # meta)
  /\ UNCHANGED <<last_heartbeat_time, shadow_masters, shadow_meta, um_calls, nodes, guards,
                 call, hb_waiting, now, ncalls, chk_pc, failed_servers, chk_now,
                 otp_store, rpc, cl, ping, shadow_set, sender>>

\* The end of a pass: the failed servers leave last_heartbeat_time.
CheckerFinish ==
  /\ chk_pc = "repair"
  /\ chk_i > Len(failed_servers)
  /\ last_heartbeat_time' =
       [a \in (DOMAIN last_heartbeat_time) \ Range(failed_servers)
          |-> last_heartbeat_time[a]]
  /\ chk_pc' = "idle"
  /\ failed_servers' = <<>>
  /\ chk_i' = 1
  /\ chk_changed' = FALSE
  /\ UNCHANGED <<file_chunks, chunk_servers, chunk_map, shadow_masters, shadow_meta,
                 um_calls, nodes, guards, call, hb_waiting, now, ncalls, chk_now,
                 ext>>

\* -------------------------------------------------------------------- clock

Tick ==
  /\ now' = now + 1
  /\ UNCHANGED <<file_chunks, chunk_servers, chunk_map, last_heartbeat_time,
                 shadow_masters, shadow_meta, um_calls, nodes, guards, call, hb_waiting, ncalls, checker,
                 ext>>

\* ----------------------------------------------------------- specifications

\* The leader's handlers of the three maps and the checker. No Heartbeat arrives
\* while a call holds the guards (SpecGuards has those), and the pings of the
\* shadow masters, which touch none of the maps, are in SpecCalls.
Next ==
  \/ \E a \in Servers : RegisterChunkServer(a)
  \/ \E a \in Servers : \E chunks \in HeartbeatChunkLists :
       guards = "none" /\ Heartbeat(a, chunks)
  \/ \E f \in {<<"f">>} : \E size \in {1, MaxFileSize} :
       ncalls < 1 /\ AssignChunks(f, size)
  \/ \E f \in {<<"f">>} : ncalls < 1 /\ DeleteFile(f)
  \/ DropCall
  \/ CheckerTick
  \/ CheckerRepair
  \/ CheckerFinish
  \/ now < MaxTime /\ Tick

Spec == Init /\ [][Next]_vars

\* The request handlers alone, for several calls and colliding names: the clock
\* stands still and the checker finds no failed server.
NextCalls ==
  \/ \E a \in Servers : RegisterChunkServer(a)
  \/ \E a \in Servers : \E chunks \in HeartbeatChunkLists :
       guards = "none" /\ Heartbeat(a, chunks)
  \/ \E f \in FileNames : \E size \in FileSizes :
       ncalls < MaxCalls /\ AssignChunks(f, size)
  \/ \E f \in FileNames : ncalls < MaxCalls /\ DeleteFile(f)
  \/ DropCall
  \/ PingMaster(FirstShadow)

SpecCalls == Init /\ [][NextCalls]_vars

\* One file of one chunk followed over several checker passes: the clock runs
\* to MaxVersionTime, heartbeats report chunks the master assigned, and a pass
\* ends within the second it started in. The first two chunkservers send
\* heartbeats; the others are heard of only when they register.
NextVersion ==
  \/ \E a \in Servers : RegisterChunkServer(a)
  \/ \E a \in {AllServers[1], AllServers[2]} :
       \E chunks \in {<<>>} \cup {<<c>> : c \in DOMAIN chunk_map} :
         guards = "none" /\ Heartbeat(a, chunks)
  \/ ncalls < 1 /\ AssignChunks(<<"f">>, 1)
  \/ ncalls < 1 /\ DeleteFile(<<"f">>)
  \/ DropCall
  \/ CheckerTick
  \/ CheckerRepair
  \/ CheckerFinish
  \/ now < MaxVersionTime /\ chk_pc = "idle" /\ Tick

SpecVersion == Init /\ [][NextVersion]_vars

\* The handlers with the heartbeats that arrive while a call holds the guards:
\* they stamp last_heartbeat_time, wait in chunk_servers.write() and go on when
\* the call was dropped.
NextGuards ==
  \/ \E a \in Servers : RegisterChunkServer(a)
  \/ \E a \in Servers : \E chunks \in HeartbeatChunkLists : Heartbeat(a, chunks)
  \/ \E a \in Servers : HeartbeatResume(a)
  \/ \E size \in {1, MaxFileSize} : ncalls < 1 /\ AssignChunks(<<"f">>, size)
  \/ ncalls < 1 /\ DeleteFile(<<"f">>)
  \/ DropCall

SpecGuards == Init /\ [][NextGuards]_vars

\* SpecGuards with the scheduler of the leader: a handler that can go on does
\* go on, which holds for the return from propagate_metadata_updates and for a
\* heartbeat whose guard was granted. Callers are free to call or give up.
SpecGuardsFair ==
  /\ SpecGuards
  /\ WF_vars(PropagateMetadataUpdates)
  /\ \A a \in Servers : WF_vars(HeartbeatResume(a))

\* The leader's passes with a shadow master that has pinged: heartbeats carry no
\* chunk names.
NextRepair ==
  \/ \E a \in Servers : RegisterChunkServer(a)
  \/ \E a \in Servers : guards = "none" /\ Heartbeat(a, <<>>)
  \/ ncalls < 1 /\ AssignChunks(<<"f">>, 1)
  \/ DropCall
  \/ PingMaster(FirstShadow)
  \/ CheckerTick
  \/ CheckerRepair
  \/ CheckerFinish
  \/ now < MaxTime /\ Tick

SpecRepair == Init /\ [][NextRepair]_vars

\* SpecRepair with the scheduler of the leader and its clock: the checker task
\* takes every step it can take, and time passes up to MaxTime. Chunkservers
\* and callers are free to send or stay silent.
SpecRepairFair ==
  /\ SpecRepair
  /\ WF_vars(CheckerTick)
  /\ WF_vars(CheckerRepair)
  /\ WF_vars(CheckerFinish)
  /\ WF_vars(now < MaxTime /\ Tick)

\* The leader's passes over a file of one chunk whose replicas were uploaded to
\* some of the assigned chunkservers, or to none.
NextRepairData ==
  \/ \E a \in Servers : RegisterChunkServer(a)
  \/ \E a \in Servers : guards = "none" /\ Heartbeat(a, <<>>)
  \/ ncalls < 1 /\ AssignChunks(<<"f">>, 1)
  \/ DropCall
  \/ \E server \in Servers :
       /\ ChunkIdOf(<<"f">>, 0) \in DOMAIN chunk_map
       /\ server \in Range(chunk_map[ChunkIdOf(<<"f">>, 0)].server_addresses)
       /\ chunk_map[ChunkIdOf(<<"f">>, 0)].version = 0
       /\ ChunkUpload(server, <<InfoMsg(<<"f">>, 0), ChunkMsg(<<"a">>)>>, "", FALSE)
  \/ CheckerTick
  \/ CheckerRepair
  \/ CheckerFinish
  \/ now < MaxTime /\ Tick

SpecRepairData == Init /\ [][NextRepairData]_vars

\* The leader exits while the shadow masters ping it; chunkservers register
\* with the leader while it runs.
NextFailover ==
  \/ \E a \in Servers : Leader \in alive /\ RegisterChunkServer(a)
  \/ \E n \in Shadows : ShadowPing(n)
  \/ LeaderExit

SpecFailover == Init /\ [][NextFailover]_vars

\* ------------------------------------------------ client: upload and read

\* upload_file: the local file cut into pieces of chunk_size bytes.
RECURSIVE FileSlices(_)
FileSlices(content) ==
  IF content = <<>> THEN <<>>
  ELSE IF Len(content) <= chunk_size THEN <<content>>
       ELSE <<SubSeq(content, 1, chunk_size)>>
              \o FileSlices(SubSeq(content, chunk_size + 1, Len(content)))

\* chunk_id.parse::<u64>().unwrap_or(0) of the chunk_id text of a ChunkInfo.
UploadChunkId(chunk_id) == IF ParseU64(chunk_id) = -1 THEN 0 ELSE ParseU64(chunk_id)

\* The uploads of upload_file in their order: every piece to every server of
\* its ChunkInfo.
RECURSIVE UploadJobs(_, _, _)
UploadJobs(chunks, chunk_info_list, chunk_index) ==
  IF chunk_index > Len(chunks) THEN <<>>
  ELSE [j \in 1..Len(chunk_info_list[chunk_index].server_addresses) |->
          [server |-> chunk_info_list[chunk_index].server_addresses[j],
           chunk_id |-> UploadChunkId(chunk_info_list[chunk_index].chunk_id),
           data |-> chunks[chunk_index]]]
         \o UploadJobs(chunks, chunk_info_list, chunk_index + 1)

\* The Upload requests of the jobs, one after the other; the first one that
\* fails ends upload_file.
RECURSIVE UploadAll(_, _, _, _)
UploadAll(bl, held, file_name, jobs) ==
  IF jobs = <<>> THEN [bl |-> bl, held |-> held, status |-> "Ok"]
  ELSE LET job == Head(jobs)
           r == UploadOn(bl[job.server], held[job.server],
                         <<InfoMsg(file_name, job.chunk_id), ChunkMsg(job.data)>>)
           bl1 == [bl EXCEPT ![job.server] = r.bl]
           held1 == [held EXCEPT ![job.server] = r.held]
       IN  IF r.status = "Ok" THEN UploadAll(bl1, held1, file_name, Tail(jobs))
           ELSE [bl |-> bl1, held |-> held1, status |-> r.status]

\* The replies of the master to AssignChunks for a new file of n chunks: the
\* chunk ids of the name, each on replication_factor distinct chunkservers.
ReplicaLists ==
  {q \in [1..replication_factor -> DataServers] :
     \A i, j \in 1..replication_factor : i # j => q[i] # q[j]}

AssignReplies(file_name, n) ==
  {[i \in 1..n |-> ChunkInfo(ChunkIdOf(file_name, i - 1), q[i], 0)] :
     q \in [1..n -> ReplicaLists]}

\* Contents of local files.
FileContents == UNION {[1..n -> Bytes] : n \in 1..MaxFileSize}

\* upload_file with the reply of AssignChunks.
ClientUploadFile(file_name, content, chunk_info_list) ==
  /\ cl.pc \in {"idle", "uploaded", "upload_failed", "read", "read_failed"}
  /\ LET chunks == FileSlices(content)
     IN  IF Len(chunks) # Len(chunk_info_list)
         THEN /\ cl' = [NoClient EXCEPT !.pc = "upload_failed", !.file_name = file_name,
                                        !.content = content]
              /\ UNCHANGED <<blobs, server_chunks>>
         ELSE LET r == UploadAll(blobs, server_chunks, file_name,
                                 UploadJobs(chunks, chunk_info_list, 1))
              IN  /\ blobs' = r.bl
                  /\ server_chunks' = r.held
                  /\ cl' = [NoClient EXCEPT
                              !.pc = IF r.status = "Ok" THEN "uploaded" ELSE "upload_failed",
                              !.file_name = file_name,
                              !.addresses = [i \in 1..Len(chunk_info_list) |->
                                               chunk_info_list[i].server_addresses],
                              !.content = content]
  /\ UNCHANGED <<masters, otp_store, rpc, ping, shadow_set, sender>>

\* read_file: chunk i - 1 from the i-th address, concatenated; the first Read
\* that fails ends it.
RECURSIVE ReadAll(_, _, _, _)
ReadAll(bl, file_name, randomized_server_addresses, i) ==
  IF i > Len(randomized_server_addresses) THEN [status |-> "Ok", content |-> <<>>]
  ELSE LET r == ReadOn(bl[randomized_server_addresses[i]], file_name, i - 1)
           rest == ReadAll(bl, file_name, randomized_server_addresses, i + 1)
       IN  IF r.status # "Ok" THEN [status |-> r.status, content |-> <<>>]
           ELSE IF rest.status # "Ok" THEN rest
                ELSE [status |-> "Ok", content |-> r.content \o rest.content]

\* get_randomized_server_addresses: one server of every chunk's list.
RandomizedAddresses(addresses) ==
  {q \in [1..Len(addresses) -> DataServers] :
     \A i \in 1..Len(addresses) : \E j \in 1..Len(addresses[i]) : q[i] = addresses[i][j]}

\* The read command after an upload, with the replicas the master recorded.
ClientReadFile(randomized_server_addresses) ==
  /\ cl.pc = "uploaded"
  /\ LET r == ReadAll(blobs, cl.file_name, randomized_server_addresses, 1)
     IN  cl' = [cl EXCEPT !.pc = IF r.status = "Ok" THEN "read" ELSE "read_failed",
                          !.result = r.content]
  /\ UNCHANGED <<masters, chunkstore, ping, shadow_set, sender>>

\* A client that uploads local files and reads them back.
NextRoundTrip ==
  \/ \E file_name \in DataFileNames : \E content \in FileContents :
       \E chunk_info_list \in AssignReplies(file_name, NumChunks(Len(content))) :
         ClientUploadFile(file_name, content, chunk_info_list)
  \/ \E q \in RandomizedAddresses(cl.addresses) : ClientReadFile(q)

SpecRoundTrip == Init /\ [][NextRoundTrip]_vars

\* ------------------------------------------------------- client: delete

\* get_all_server_addresses: the server lists of the chunks get_file_chunks
\* answers; the command ends when the call fails or the list is empty. The
\* handler's read guard waits while a write guard is held.
ClientGetAddresses(file_name) ==
  /\ cl.pc = "idle"
  /\ guards = "none"
  /\ LET chunks == GetFileChunks(file_name)
     IN  IF file_name \notin DOMAIN file_chunks \/ Len(chunks) = 0
         THEN cl' = [NoClient EXCEPT !.pc = "ended", !.file_name = file_name]
         ELSE cl' = [NoClient EXCEPT
                       !.pc = "got_addresses", !.file_name = file_name,
                       !.addresses = [i \in 1..Len(chunks) |-> chunks[i].server_addresses]]
  /\ UNCHANGED <<masters, chunkstore, ping, shadow_set, sender>>

\* The client sends DeleteFile to the master.
ClientDeleteFileCall ==
  /\ cl.pc = "got_addresses"
  /\ DeleteFileHandler(cl.file_name)
  /\ cl' = [cl EXCEPT !.pc = "called"]
  /\ UNCHANGED <<chunkstore, ping, shadow_set, sender>>

\* For comparison: a client that goes on to the chunkservers after any outcome.
ClientProceedsAlways(success) == TRUE

\* The match on the outcome of DeleteFile: the command goes on only after a
\* response with success = true.
ClientProceeds(success) == success = "true"

\* Client::delete_file: Delete of chunk i - 1 on every server of the i-th list;
\* failures are logged.
RECURSIVE DeleteOnServers(_, _, _, _)
DeleteOnServers(st, file_name, chunk_id, server_addresses) ==
  IF server_addresses = <<>> THEN st
  ELSE LET server == Head(server_addresses)
           r == DeleteOn(st.bl[server], st.held[server], ChunkIdOf(file_name, chunk_id))
       IN  DeleteOnServers([bl |-> [st.bl EXCEPT ![server] = r.bl],
                            held |-> [st.held EXCEPT ![server] = r.held],
                            sent |-> st.sent \cup {<<server, chunk_id>>}],
                           file_name, chunk_id, Tail(server_addresses))

RECURSIVE ClientDeleteAll(_, _, _, _)
ClientDeleteAll(st, file_name, all_server_addresses, i) ==
  IF i > Len(all_server_addresses) THEN st
  ELSE ClientDeleteAll(DeleteOnServers(st, file_name, i - 1, all_server_addresses[i]),
                       file_name, all_server_addresses, i + 1)

\* The outcome of DeleteFile reaches the client: a response with success true
\* or false, or an error when the call was given up. The command ends unless it
\* goes on with Client::delete_file.
ClientDeleteResponse ==
  /\ cl.pc = "called"
  /\ call.state \in {"returned", "not_found"} \/ call = NoCall
  /\ LET success == IF call.state = "returned" THEN "true"
                    ELSE IF call.state = "not_found" THEN "false" ELSE "err"
     IN  IF ClientProceeds(success)
         THEN LET r == ClientDeleteAll([bl |-> blobs, held |-> server_chunks, sent |-> {}],
                                       cl.file_name, cl.addresses, 1)
              IN  /\ blobs' = r.bl
                  /\ server_chunks' = r.held
                  /\ cl' = [cl EXCEPT !.pc = "ended", !.success = success,
                                      !.deleted = r.sent]
         ELSE /\ cl' = [cl EXCEPT !.pc = "ended", !.success = success]
              /\ UNCHANGED <<blobs, server_chunks>>
  /\ UNCHANGED <<masters, otp_store, rpc, ping, shadow_set, sender>>

\* The delete command of one client beside the calls of other clients: the
\* chunkservers register, a file of one chunk is assigned and uploaded, and
\* the file may be deleted by another client before this client's DeleteFile.
NextClientDelete ==
  \/ \E a \in DataServers : RegisterChunkServer(a)
  \/ ncalls < MaxClientCalls /\ cl.pc # "called" /\ AssignChunks(<<"f">>, 1)
  \/ ncalls < MaxClientCalls /\ cl.pc # "called" /\ DeleteFile(<<"f">>)
  \/ DropCall
  \/ \E server \in DataServers :
       ChunkUpload(server, <<InfoMsg(<<"f">>, 0), ChunkMsg(<<"a">>)>>, "", FALSE)
  \/ ClientGetAddresses(<<"f">>)
  \/ ncalls < MaxClientCalls /\ ClientDeleteFileCall
  \/ ClientDeleteResponse

SpecClientDelete == Init /\ [][NextClientDelete]_vars

\* ---------------------------------------------- chunkserver: send_heartbeat

\* CommonConfig.master_addrs in its order.
master_addrs == <<Leader, FirstShadow, "S2">>

\* connect_to_master: the first address of master_addrs that accepts the
\* connection; "" for Err("No master server is connectable").
RECURSIVE ConnectToMaster(_, _)
ConnectToMaster(addrs, up) ==
  IF addrs = <<>> THEN ""
  ELSE IF Head(addrs) \in up THEN Head(addrs)
       ELSE ConnectToMaster(Tail(addrs), up)

\* One round of the loop of send_heartbeat on chunkserver s: the heartbeat goes
\* to the master of the client it holds; when it fails the task reconnects and
\* goes on with the new client, and leaves the loop when no master accepts.
SendHeartbeat(s) ==
  /\ sender[s].pc = "running"
  /\ IF sender[s].master \in alive
     THEN sender' = [sender EXCEPT ![s].delivered =
                       IF @ < MaxDelivered THEN @ + 1 ELSE @]
     ELSE LET new_client == ConnectToMaster(master_addrs, alive)
          IN  IF new_client # ""
              THEN sender' = [sender EXCEPT ![s].master = new_client]
              ELSE sender' = [sender EXCEPT ![s].pc = "exited"]
  /\ UNCHANGED <<masters, chunkstore, cl, ping, shadow_set>>

\* The process of master n exits: connections to it fail.
MasterExit(n) ==
  /\ n \in alive
  /\ alive' = alive \ {n}
  /\ UNCHANGED <<file_chunks, chunk_servers, chunk_map, last_heartbeat_time,
                 shadow_masters, shadow_meta, um_calls, is_leader_flag, current_master, tasks, dl,
                 guards, call, hb_waiting, now, ncalls, checker,
                 ext>>

\* Master n accepts connections again.
MasterStart(n) ==
  /\ n \notin alive
  /\ alive' = alive \cup {n}
  /\ UNCHANGED <<file_chunks, chunk_servers, chunk_map, last_heartbeat_time,
                 shadow_masters, shadow_meta, um_calls, is_leader_flag, current_master, tasks, dl,
                 guards, call, hb_waiting, now, ncalls, checker,
                 ext>>

\* ------------------------------------------------------- determine_leader

\* The shadow_masters of master node n.
ShadowSetOf(n) == IF n = Leader THEN shadow_masters ELSE shadow_set[n]

\* determine_leader(self_addr, master_addrs) of a node that starts and does not
\* serve yet.
DetermineLeaderStart(self_addr) ==
  /\ dl.pc = "none"
  /\ self_addr \notin alive
  /\ dl' = [pc |-> "next", self_addr |-> self_addr, i |-> 1, leader |-> ""]
  /\ UNCHANGED <<file_chunks, chunk_servers, chunk_map, last_heartbeat_time,
                 shadow_masters, shadow_meta, um_calls, alive, is_leader_flag,
                 current_master, tasks, guards, call, hb_waiting, now, ncalls, checker,
                 ext>>

\* One address of "for addr in master_addrs": the own address and an address
\* that refuses the connection are passed over; a connected node runs
\* ping_master up to the insert; after the last address the result is None.
DetermineLeaderNext ==
  /\ dl.pc = "next"
  /\ ping.pc # "respond"
  /\ IF dl.i > Len(master_addrs)
     THEN /\ dl' = [dl EXCEPT !.pc = "returned"]
          /\ UNCHANGED <<shadow_masters, shadow_set, ping>>
     ELSE LET addr == master_addrs[dl.i]
          IN  IF addr = dl.self_addr \/ addr \notin alive
              THEN /\ dl' = [dl EXCEPT !.i = @ + 1]
                   /\ UNCHANGED <<shadow_masters, shadow_set, ping>>
              ELSE /\ dl' = [dl EXCEPT !.pc = "waiting"]
                   /\ IF addr = Leader
                      THEN /\ shadow_masters' =
                                IF is_leader_flag[addr]
                                THEN shadow_masters \cup {dl.self_addr}
                                ELSE shadow_masters
                           /\ UNCHANGED shadow_set
                      ELSE /\ shadow_set' = [shadow_set EXCEPT ![addr] =
                                              IF is_leader_flag[addr]
                                              THEN @ \cup {dl.self_addr} ELSE @]
                           /\ UNCHANGED shadow_masters
                   /\ ping' = [pc |-> "respond", node |-> addr,
                               sender_address |-> dl.self_addr, is_leader |-> FALSE]
  /\ UNCHANGED <<file_chunks, chunk_servers, chunk_map, last_heartbeat_time,
                 shadow_meta, um_calls, alive, is_leader_flag, current_master, tasks,
                 guards, call, hb_waiting, now, ncalls, checker,
                 chunkstore, cl, sender>>

\* The response of ping_master reaches determine_leader: is_leader = true ends
\* the loop with this address, anything else goes on to the next address.
DetermineLeaderAnswer ==
  /\ dl.pc = "waiting"
  /\ ping.pc = "answered"
  /\ dl' = IF ping.is_leader
           THEN [dl EXCEPT !.pc = "returned", !.leader = master_addrs[dl.i]]
           ELSE [dl EXCEPT !.pc = "next", !.i = @ + 1]
  /\ UNCHANGED <<file_chunks, chunk_servers, chunk_map, last_heartbeat_time,
                 shadow_masters, shadow_meta, um_calls, alive, is_leader_flag,
                 current_master, tasks, guards, call, hb_waiting, now, ncalls, checker,
                 ext>>

\* The heartbeat senders of the chunkservers while masters come and go.
NextSender ==
  \/ \E s \in DataServers : SendHeartbeat(s)
  \/ \E n \in MasterNodes : MasterExit(n)
  \/ \E n \in MasterNodes : MasterStart(n)

SpecSender == Init /\ [][NextSender]_vars

\* The handlers of the chunkservers under requests of clients and of the master.
NextData ==
  \/ \E server \in DataServers : \E stream \in UploadStreams : \E otp \in OtpValues :
       ChunkUpload(server, stream, otp, FALSE)
  \/ \E server \in DataServers : \E f \in DataFileNames : \E otp \in OtpValues :
       ChunkRead(server, f, 0, otp)
  \/ \E server \in DataServers : \E f \in DataFileNames : \E otp \in OtpValues :
       ChunkDelete(server, f, 0, otp)
  \/ \E server \in DataServers : \E f \in DataFileNames : \E otp \in OtpValues :
       ChunkAppend(server, f, 0, <<"a">>, otp)
  \/ \E source \in DataServers : \E target_address \in DataServers \ {source} :
       \E f \in DataFileNames : TransferChunk(source, ChunkIdOf(f, 0), target_address)

SpecData == Init /\ [][NextData]_vars

\* The OTP tables a chunkserver may hold: expiration times up to MaxTime + 1 for
\* some of the OTPs.
OtpTables == UNION {[S -> 0..(MaxTime + 1)] : S \in SUBSET OtpValues}

\* The first chunkserver starts with one of OtpTables.
InitOtp ==
  /\ file_chunks = EmptyMap
  /\ chunk_servers = EmptyMap
  /\ chunk_map = EmptyMap
  /\ last_heartbeat_time = EmptyMap
  /\ shadow_masters = {}
  /\ shadow_meta = [m \in Shadows |-> EmptyMetadata]
  /\ um_calls = [c \in UpdateCalls |-> NoUpdate]
  /\ alive = MasterNodes
  /\ is_leader_flag = [n \in MasterNodes |-> n = Leader]
  /\ current_master = [n \in MasterNodes |-> Leader]
  /\ guards = "none"
  /\ call = NoCall
  /\ hb_waiting = [s \in Servers |-> NoHeartbeat]
  /\ now = 0
  /\ ncalls = 0
  /\ chk_pc = "idle"
  /\ failed_servers = <<>>
  /\ chk_i = 1
  /\ chk_changed = FALSE
  /\ chk_now = 0
  /\ blobs = [s \in Servers |-> EmptyMap]
  /\ server_chunks = [s \in Servers |-> {}]
  /\ otp_store \in {[s \in Servers |-> IF s = AllServers[1] THEN table ELSE EmptyMap] :
                       table \in OtpTables}
  /\ rpc = NoRpc
  /\ cl = NoClient
  /\ ping = NoPing
  /\ shadow_set = [n \in Shadows |-> {}]
  /\ sender = [s \in Servers |-> [pc |-> "running", master |-> Leader,
                                   delivered |-> 0]]
  /\ tasks = [n \in MasterNodes |->
                IF n = Leader THEN [ping |-> "none", checkers |-> 1]
                ELSE [ping |-> "running", checkers |-> 0]]
  /\ dl = NoElection

\* validate_otp and the cleanup task on the first chunkserver while time passes.
NextOtp ==
  \/ \E otp \in OtpValues : \E auth \in BOOLEAN : OtpValidate(AllServers[1], otp, auth)
  \/ OtpCleanup(AllServers[1])
  \/ now < MaxTime /\ Tick

SpecOtp == InitOtp /\ [][NextOtp]_vars

\* The failover with ping_master requests to the shadow masters (determine_leader
\* of a starting node pings every configured master).
NextPing ==
  \/ \E a \in Servers : Leader \in alive /\ RegisterChunkServer(a)
  \/ \E n \in Shadows : ShadowPing(n)
  \/ LeaderExit
  \/ \E n \in Shadows : \E sender_address \in MasterNodes \ {n} :
       PingBegin(n, sender_address)
  \/ PingRespond

SpecPing == Init /\ [][NextPing]_vars

\* Master processes exit while the shadow masters run their ping loops, and one
\* node starts again and looks for the leader.
NextElection ==
  \/ \E n \in Shadows : ShadowPing(n)
  \/ \E n \in MasterNodes : MasterExit(n)
  \/ \E self_addr \in MasterNodes : DetermineLeaderStart(self_addr)
  \/ DetermineLeaderNext
  \/ PingRespond
  \/ DetermineLeaderAnswer

SpecElection == Init /\ [][NextElection]_vars

\* update_metadata calls on one shadow master, each with one of Snapshots.
NextShadow ==
  \/ \E c \in UpdateCalls : \E metadata \in Snapshots : UpdateMetadataBegin(c, metadata)
  \/ \E c \in UpdateCalls : UpdateFileChunks(c)
  \/ \E c \in UpdateCalls : UpdateChunkServers(c)
  \/ \E c \in UpdateCalls : UpdateChunkMap(c)

SpecShadow == Init /\ [][NextShadow]_vars

\* The checker with the read of the time and the scan as separate steps, beside
\* the heartbeats.
NextChecker ==
  \/ \E a \in Servers : RegisterChunkServer(a)
  \/ \E a \in Servers : Heartbeat(a, <<>>)
  \/ ncalls < 1 /\ AssignChunks(<<"f">>, 1)
  \/ DropCall
  \/ CheckerReadNow
  \/ CheckerScan
  \/ CheckerRepair
  \/ CheckerFinish
  \/ now < MaxTime /\ Tick

SpecChecker == Init /\ [][NextChecker]_vars

\* Heartbeats with longer chunk lists, over the chunk of one file and a name the
\* master does not know.
NextHeartbeat ==
  \/ \E a \in Servers : RegisterChunkServer(a)
  \/ \E a \in Servers : \E chunks \in HeartbeatChunkListsWide :
       guards = "none" /\ Heartbeat(a, chunks)
  \/ ncalls < 1 /\ AssignChunks(<<"f">>, 1)
  \/ DropCall
  \/ now < MaxTime /\ Tick

SpecHeartbeat == Init /\ [][NextHeartbeat]_vars


\* ------------------------------------------------------------------- claims

\* ceil(file_size / chunk_size), by its definition and not by the code's formula.
CeilDiv(a, b) == CHOOSE n \in 0..a : n * b >= a /\ (n - 1) * b < a

Min(a, b) == IF a <= b THEN a ELSE b

\* The handler built its response and is in propagate_metadata_updates.
AssignBuilt == call.op = "assign" /\ call.state = "propagating"

DeleteBuilt == call.op = "delete" /\ call.state = "propagating"

\* C1: after an AssignChunks that built a response with file name f for a file
\* of n = ceil(file_size / chunk_size) >= 1 chunks, what GetFileChunks(f)
\* returns is a list of n ChunkInfo, the i-th named f_chunk_<i>, equal to the
\* list of the response.
C1_FileChunksIsResponse ==
  (AssignBuilt /\ call.file_size >= 1) =>
    LET f == call.resp_name
        n == CeilDiv(call.file_size, chunk_size)
        chunks == GetFileChunks(f)
    IN  /\ f \in DOMAIN file_chunks
        /\ Len(chunks) = n
        /\ \A i \in 0..(n - 1) : chunks[i + 1].chunk_id = ChunkIdOf(f, i)
        /\ chunks = call.resp_chunks

\* C2: every ChunkInfo an AssignChunks step creates has exactly
\* min(replication_factor, |availServers|) addresses, all of them in
\* availServers, the registered servers whose load before the call was below
\* max_allowed_chunks.
C2_ReplicaCount ==
  [][(guards = "none" /\ guards' = "assign") =>
       LET availServers == {a \in DOMAIN chunk_servers :
                              Len(chunk_servers[a]) < max_allowed_chunks}
       IN  \A i \in 1..Len(call'.resp_chunks) :
             LET addrs == call'.resp_chunks[i].server_addresses
             IN  /\ Len(addrs) = Min(replication_factor, Cardinality(availServers))
                 /\ Cardinality(Range(addrs)) = Len(addrs)
                 /\ Range(addrs) \subseteq availServers]_vars

\* The response AssignChunks builds: ceil(file_size / chunk_size) entries in
\* chunk order, named <returned name>_chunk_<i>, version 0, each one the value
\* chunk_map has for its id.
AssignResponseShape ==
  LET n == CeilDiv(call.file_size, chunk_size)
  IN  /\ Len(call.resp_chunks) = n
      /\ \A i \in 0..(n - 1) :
           LET ci == call.resp_chunks[i + 1]
           IN  /\ ci.chunk_id = ChunkIdOf(call.resp_name, i)
               /\ ci.version = 0
               /\ ci.chunk_id \in DOMAIN chunk_map
               /\ chunk_map[ci.chunk_id] = ci

\* The response has that shape whenever the handler has built it.
AssignBuiltShape == AssignBuilt => AssignResponseShape

\* C3: an AssignChunks call that found an available server returns to its
\* caller, and what it returns has the shape of AssignResponseShape.
C3_AssignReturns ==
  (call.op = "assign" /\ call.state # "internal_error") =>
    (call.state = "returned" /\ AssignResponseShape)

\* C4: after an AssignChunks for a file of at least one chunk, file_chunks has
\* an entry under the name the call returns.
C4_ReturnedNameRecorded ==
  (AssignBuilt /\ call.file_size >= 1) => call.resp_name \in DOMAIN file_chunks

\* C9: after a DeleteFile(f) of a known file, f is no key of file_chunks, and no
\* key of chunk_map and no chunk of any load starts with f followed by "_chunk_".
C9_DeleteRemovesAll ==
  DeleteBuilt =>
    LET prefix == call.file_name \o <<"_chunk_">>
    IN  /\ call.file_name \notin DOMAIN file_chunks
        /\ \A id \in DOMAIN chunk_map : ~StartsWith(id, prefix)
        /\ \A a \in DOMAIN chunk_servers : \A i \in 1..Len(chunk_servers[a]) :
             ~StartsWith(chunk_servers[a][i].chunk_id, prefix)

\* C10: a shadow master that is in shadow_masters when AssignChunks or
\* DeleteFile changes the leader's maps has, once the handler is done with the
\* maps, the leader's three maps as they are after that change.
C10_ShadowHasLeaderMaps ==
  [][(guards = "none" /\ guards' # "none") =>
       \A m \in shadow_masters \cap Shadows :
         shadow_meta'[m] = [file_chunks |-> file_chunks',
                            chunk_servers |-> chunk_servers',
                            chunk_map |-> chunk_map']]_vars

\* The ChunkInfo values listed in file_chunks.
ListedChunks == UNION {Range(file_chunks[f]) : f \in DOMAIN file_chunks}

\* C5: a checker step for a single failed server F, on a chunk c that
\* file_chunks and chunk_map record alike under c's file, that F holds, that has
\* a surviving replica, and for which enough free servers that do not hold c
\* exist, leaves chunk_map[c] with the survivors among its addresses,
\* replication_factor distinct addresses without F, and the version one higher.
C5_RepairKeepsSurvivors ==
  [][(chk_pc = "repair" /\ chk_i' = chk_i + 1 /\ Len(failed_servers) = 1) =>
       LET failed == failed_servers[chk_i]
       IN  \A c \in DOMAIN chunk_map :
             LET old == chunk_map[c]
                 survivors == Range(old.server_addresses) \ {failed}
                 candidates == {a \in (DOMAIN chunk_servers) \ {failed} :
                                  /\ Len(chunk_servers[a]) < max_allowed_chunks
                                  /\ \A x \in Range(chunk_servers[a]) : x.chunk_id # c}
                 file_name == FileNameOfChunk(c)
             IN  (/\ failed \in Range(old.server_addresses)
                  /\ failed \in DOMAIN chunk_servers
                  /\ old \in Range(chunk_servers[failed])
                  /\ file_name \in DOMAIN file_chunks
                  /\ old \in Range(file_chunks[file_name])
                  /\ Cardinality(Range(old.server_addresses)) = replication_factor
                  /\ survivors # {}
                  /\ Cardinality(candidates \ survivors)
                       >= replication_factor - Cardinality(survivors))
                 =>
                 (/\ c \in DOMAIN chunk_map'
                  /\ survivors \subseteq Range(chunk_map'[c].server_addresses)
                  /\ failed \notin Range(chunk_map'[c].server_addresses)
                  /\ Cardinality(Range(chunk_map'[c].server_addresses))
                       = replication_factor
                  /\ chunk_map'[c].version = old.version + 1)]_vars

\* C6: every ChunkInfo listed in file_chunks is in chunk_map under its id with
\* the same version.
C6_VersionsAgree ==
  \A ci \in ListedChunks :
    /\ ci.chunk_id \in DOMAIN chunk_map
    /\ chunk_map[ci.chunk_id].version = ci.version

\* C7: every address of a ChunkInfo listed in file_chunks has an entry in
\* chunk_servers, and that entry has a chunk of that id.
C7_LoadCoversFileChunks ==
  \A ci \in ListedChunks : \A a \in Range(ci.server_addresses) :
    /\ a \in DOMAIN chunk_servers
    /\ \E x \in Range(chunk_servers[a]) : x.chunk_id = ci.chunk_id

\* C8: the version chunk_map has for a chunk id never decreases while the id
\* stays a key of chunk_map.
C8_VersionMonotonic ==
  [][\A c \in (DOMAIN chunk_map) \cap (DOMAIN chunk_map') :
       chunk_map'[c].version >= chunk_map[c].version]_vars

\* C11: when a checker pass that changed one of the three maps ends, every
\* shadow master in shadow_masters has the leader's three maps, the repaired
\* placement and version among them.
C11_RepairPropagated ==
  [][(chk_pc = "repair" /\ chk_pc' = "idle" /\ chk_changed) =>
       \A m \in shadow_masters \cap Shadows :
         shadow_meta'[m] = [file_chunks |-> file_chunks',
                            chunk_servers |-> chunk_servers',
                            chunk_map |-> chunk_map']]_vars

\* C12: at no time do two running master nodes both have is_leader_flag = TRUE.
C12_SingleLeader ==
  Cardinality({n \in alive : is_leader_flag[n]}) <= 1

\* C13: when no update_metadata call is in progress on a shadow master, its
\* three maps are those of one single snapshot it received (or the three empty
\* maps it started with).
C13_OneSnapshot ==
  (\A c \in UpdateCalls : um_calls[c].pc = "none") =>
    shadow_meta[FirstShadow] \in Snapshots \cup {EmptyMetadata}


\* C14: a checker pass treats a server as failed exactly when the time the pass
\* read minus the server's last heartbeat is above heartbeat_failure_threshold
\* times heartbeat_interval (a server exactly at the threshold is alive); the
\* pass removes the load entry of each failed server and of no other, and at its
\* end removes the failed servers, and no other, from last_heartbeat_time.
C14_FailedExactlyAboveThreshold ==
  [][/\ (chk_pc = "scan" /\ chk_pc' # "scan") =>
          /\ chk_pc' # "panicked"
          /\ Range(failed_servers') =
               {s \in DOMAIN last_heartbeat_time :
                  chk_now - last_heartbeat_time[s] >
                    heartbeat_failure_threshold * heartbeat_interval}
     /\ (chk_pc = "repair" /\ chk_i' = chk_i + 1) =>
          DOMAIN chunk_servers' = (DOMAIN chunk_servers) \ {failed_servers[chk_i]}
     /\ (chk_pc = "repair" /\ chk_pc' = "idle") =>
          DOMAIN last_heartbeat_time' =
            (DOMAIN last_heartbeat_time) \ Range(failed_servers)]_vars

\* C15: a Heartbeat is never rejected; the handler stamps last_heartbeat_time of
\* the address with the current time and makes the load of the address the list
\* of the chunk_map entries of the reported names that are keys of chunk_map, in
\* the order reported, creating the entry if there was none; file_chunks,
\* chunk_map and the load of every other server stay as they were.
C15_HeartbeatRebuildsLoad ==
  /\ [](guards = "none" =>
          \A a \in Servers : ENABLED Heartbeat(a, <<UnknownChunk>>))
  /\ [][\A a \in Servers : \A chunks \in HeartbeatChunkListsWide :
          (guards = "none" /\ call' = call /\ now' = now /\ Heartbeat(a, chunks)) =>
            LET known == SelectSeq(chunks, LAMBDA c : c \in DOMAIN chunk_map)
            IN  /\ a \in DOMAIN last_heartbeat_time'
                /\ last_heartbeat_time'[a] = now
                /\ DOMAIN chunk_servers' = (DOMAIN chunk_servers) \cup {a}
                /\ chunk_servers'[a] = [i \in 1..Len(known) |-> chunk_map[known[i]]]
                /\ \A b \in (DOMAIN chunk_servers) \ {a} :
                     chunk_servers'[b] = chunk_servers[b]
                /\ file_chunks' = file_chunks
                /\ chunk_map' = chunk_map]_vars

\* A server whose heartbeat reported a chunk the master placed on other servers.
C15_Witness ==
  \E a \in DOMAIN chunk_servers :
    /\ a \in DOMAIN last_heartbeat_time
    /\ \E i \in 1..Len(chunk_servers[a]) :
         a \notin Range(chunk_servers[a][i].server_addresses)

\* C16: a Heartbeat request handled a second time, with nothing in between,
\* leaves chunk_servers as the first handling left it.
C16_HeartbeatIdempotent ==
  [][\A a \in Servers : \A chunks \in HeartbeatChunkListsWide :
       (guards = "none" /\ call' = call /\ now' = now /\ Heartbeat(a, chunks)) =>
         HeartbeatLoad(chunk_servers', chunk_map', a, chunks) = chunk_servers']_vars

\* A server whose heartbeat named one assigned chunk twice: its load has the
\* chunk twice, and no third time.
C16_Witness ==
  \E a \in DOMAIN chunk_servers :
    /\ a \in DOMAIN last_heartbeat_time
    /\ Len(chunk_servers[a]) = 2
    /\ chunk_servers[a][1] = chunk_servers[a][2]

\* Every ChunkInfo the master stores: in file_chunks, in chunk_map, in a load.
StoredChunks ==
  ListedChunks
    \cup {chunk_map[c] : c \in DOMAIN chunk_map}
    \cup UNION {Range(chunk_servers[a]) : a \in DOMAIN chunk_servers}

\* No address occurs twice in the list.
DuplicateFree(addresses) ==
  \A i, j \in 1..Len(addresses) : i # j => addresses[i] # addresses[j]

\* C17: in every reachable state the server_addresses of every ChunkInfo stored
\* in file_chunks, chunk_map or a load is a duplicate-free list of at most
\* replication_factor addresses.
C17_AddressesDistinctAndBounded ==
  \A c \in StoredChunks :
    /\ DuplicateFree(c.server_addresses)
    /\ Len(c.server_addresses) <= replication_factor

\* A chunk the checker re-replicated (chunk_map has it with a higher version)
\* while a load still holds the ChunkInfo that assign_chunks made for it.
C17_Witness ==
  \E c \in DOMAIN chunk_map :
    /\ chunk_map[c].version >= 1
    /\ \E a \in DOMAIN chunk_servers : \E d \in Range(chunk_servers[a]) :
         d.chunk_id = c /\ d.version = 0

\* C18: when the load of every server is at most max_allowed_chunks before an
\* AssignChunks call, the load of every server is at most max_allowed_chunks
\* after the handler's changes, whatever the number of chunks of the file.
C18_AssignKeepsLoadBound ==
  [][(call'.op = "assign" /\ ncalls' = ncalls + 1
        /\ \A a \in DOMAIN chunk_servers :
             Len(chunk_servers[a]) <= max_allowed_chunks) =>
       \A a \in DOMAIN chunk_servers' :
         Len(chunk_servers'[a]) <= max_allowed_chunks]_vars

\* C19: AssignChunks fails with Internal when no registered server has fewer
\* than max_allowed_chunks chunks (no server registered included); the failing
\* handler leaves file_chunks, chunk_servers and chunk_map as they were, holds no
\* guard afterwards and changes no shadow master's maps.
C19_AssignFailsWithoutServers ==
  [][(call'.op = "assign" /\ ncalls' = ncalls + 1) =>
       /\ (\A a \in DOMAIN chunk_servers :
              Len(chunk_servers[a]) >= max_allowed_chunks) =>
            call'.state = "internal_error"
       /\ call'.state = "internal_error" =>
            /\ file_chunks' = file_chunks
            /\ chunk_servers' = chunk_servers
            /\ chunk_map' = chunk_map
            /\ shadow_meta' = shadow_meta
            /\ guards' = "none"
            /\ call'.resp_chunks = <<>>]_vars

\* An AssignChunks that failed although servers are registered: all are full.
C19_Witness ==
  /\ call.op = "assign"
  /\ call.state = "internal_error"
  /\ DOMAIN chunk_servers # {}
  /\ \A a \in DOMAIN chunk_servers : Len(chunk_servers[a]) >= max_allowed_chunks

\* C20: DeleteFile of a name that is no key of file_chunks answers with
\* success = false and no error, leaves file_chunks, chunk_servers and chunk_map
\* as they were, holds no guard afterwards and changes no shadow master's maps.
C20_DeleteUnknownFile ==
  [][(call'.op = "delete" /\ ncalls' = ncalls + 1
        /\ call'.file_name \notin DOMAIN file_chunks) =>
       /\ call'.state = "not_found"
       /\ file_chunks' = file_chunks
       /\ chunk_servers' = chunk_servers
       /\ chunk_map' = chunk_map
       /\ shadow_meta' = shadow_meta
       /\ guards' = "none"]_vars

\* A DeleteFile that found no file of the name while another file is recorded.
C20_Witness ==
  /\ call.op = "delete"
  /\ call.state = "not_found"
  /\ file_chunks # EmptyMap

\* C21: a node that answers is_leader = true to a ping_master request has the
\* sender in its shadow_masters when it answers, and a node that answers
\* is_leader = false has left its shadow_masters as it was.
C21_LeaderAnswerRegistersSender ==
  [][(ping.pc = "respond" /\ ping'.pc = "answered") =>
       IF ping'.is_leader
       THEN ping.sender_address \in shadow_set'[ping.node]
       ELSE shadow_set' = shadow_set]_vars

\* The requests of clients to a chunkserver that the OTP gate is for.
ClientOps == {"upload", "read", "append", "delete"}

\* C22: with use_authentication, a client request (is_internal = false) whose
\* OTP is not in the chunkserver's OTP table with an expiration after now is
\* answered Unauthenticated, returns no content and changes no chunk file and
\* no server_chunks.
C22_OtpGate ==
  [][(/\ use_authentication
      /\ rpc'.op \in ClientOps
      /\ ~rpc'.is_internal
      /\ ~(/\ rpc'.otp \in DOMAIN otp_store[rpc'.server]
           /\ otp_store[rpc'.server][rpc'.otp] > now)) =>
       /\ rpc'.status = "Unauthenticated"
       /\ rpc'.op = "read" => rpc'.content = <<>>
       /\ blobs' = blobs
       /\ server_chunks' = server_chunks]_vars

\* C24: an Upload whose stream has no message, or whose first message is a
\* payload, is answered InvalidArgument and changes no chunk file and no
\* server_chunks.
C24_UploadWithoutInfo ==
  [][(/\ rpc'.op = "upload"
      /\ \/ rpc'.stream = <<>>
         \/ rpc'.stream # <<>> /\ Head(rpc'.stream).kind = "chunk") =>
       /\ rpc'.status = "InvalidArgument"
       /\ blobs' = blobs
       /\ server_chunks' = server_chunks]_vars

\* C25: after a TransferChunk(chunk_name, target) that the source answered with
\* Ok, the target's chunk file of that name has the content of the source's,
\* the name is in the target's server_chunks, and the source's files and
\* server_chunks are as before.
C25_TransferCopiesChunk ==
  [][(rpc'.op = "transfer" /\ rpc'.status = "Ok") =>
       LET source == rpc'.server
           target_address == rpc'.target
           chunk_name == rpc'.name
       IN  /\ chunk_name \in DOMAIN blobs'[target_address]
           /\ blobs'[target_address][chunk_name] = blobs[source][chunk_name]
           /\ chunk_name \in server_chunks'[target_address]
           /\ blobs'[source] = blobs[source]
           /\ server_chunks'[source] = server_chunks[source]]_vars

\* C23: a read of a file right after its upload returns the uploaded content,
\* whichever replica of each chunk is read.
C23_ReadAfterWrite ==
  [][(cl.pc = "uploaded" /\ cl'.pc \in {"read", "read_failed"}) =>
       cl'.pc = "read" /\ cl'.result = cl.content]_vars

\* C26: the heartbeat sender of a chunkserver keeps running after every failed
\* heartbeat and every failed reconnect, also while no master is reachable.
C26_SenderKeepsRunning == \A s \in DataServers : sender[s].pc = "running"

\* A chunk file that a step removed from a chunkserver.
BlobRemoved == \E s \in Servers : ~(DOMAIN blobs[s] \subseteq DOMAIN blobs'[s])

\* C27: the delete command sends Delete to a chunkserver, and a chunk file is
\* removed, only after DeleteFile answered success = true; after success =
\* false or a failed call the command ends with nothing sent.
C27_DeleteOnlyAfterSuccess ==
  [][/\ (cl'.deleted # cl.deleted \/ BlobRemoved) => (cl'.success = "true")
     /\ (cl.pc = "called" /\ cl'.pc = "ended" /\ cl'.success \in {"false", "err"}) =>
          (cl'.deleted = {} /\ blobs' = blobs /\ server_chunks' = server_chunks)]_vars

\* The command ended after success = false while the chunkservers store the
\* chunk of the file.
C27_Witness ==
  /\ cl.pc = "ended"
  /\ cl.success = "false"
  /\ cl.addresses # <<>>
  /\ \E s \in DataServers : ChunkIdOf(cl.file_name, 0) \in DOMAIN blobs[s]

\* C28: every AssignChunks and DeleteFile call that reached
\* propagate_metadata_updates is granted the guards of collect_metadata and
\* returns its response, unless its caller gave up before.
C28_CallsReturn ==
  (call.state = "propagating") ~> (call.state = "returned" \/ call = NoCall)

\* C29: a handler that goes on to the calls of propagate_metadata_updates has
\* released the write guards of the three maps.
C29_GuardsReleasedBeforePropagation == call.state = "propagating" => guards = "none"

\* The repair of chunk_info in a pass over failed_server, from the maps before
\* the pass: the source servers and the servers the selection loop selects.
RepairPlan(chunk_info, failed_server) ==
  LET file_name == FileNameOfChunk(chunk_info.chunk_id)
      file_list == IF file_name \in DOMAIN file_chunks THEN file_chunks[file_name]
                   ELSE <<>>
      source_servers == SourceServers(file_list, chunk_info.chunk_id, failed_server)
      needed_replicas == replication_factor - ExistingReplicas(file_list, failed_server)
  IN  [source_servers |-> source_servers,
       selected_servers |->
         IF source_servers = <<>> \/ needed_replicas = 0 THEN <<>>
         ELSE RepairSelect(ServerQueue(AvailableServers(
                             MapRemove(chunk_servers, failed_server),
                             chunk_info.chunk_id)), <<>>, needed_replicas)]

\* C30: when the repair of a chunk selects a target and the TransferChunk toward
\* it fails, the target is not among the chunk's server_addresses in chunk_map
\* and file_chunks afterwards and the chunk is not added to the target's load.
C30_FailedTargetSkipped ==
  [][(/\ chk_pc = "repair"
      /\ chk_i' = chk_i + 1
      /\ failed_servers[chk_i] \in DOMAIN chunk_servers
      /\ Len(chunk_servers[failed_servers[chk_i]]) = 1) =>
       LET chunk_info == chunk_servers[failed_servers[chk_i]][1]
           chunk_id == chunk_info.chunk_id
           plan == RepairPlan(chunk_info, failed_servers[chk_i])
       IN  \A target_server \in Range(plan.selected_servers) :
             chunk_id \notin DOMAIN blobs[plan.source_servers[1]] =>
               /\ chunk_id \in DOMAIN chunk_map' =>
                    target_server \notin Range(chunk_map'[chunk_id].server_addresses)
               /\ \A f \in DOMAIN file_chunks' : \A i \in 1..Len(file_chunks'[f]) :
                    file_chunks'[f][i].chunk_id = chunk_id =>
                      target_server \notin Range(file_chunks'[f][i].server_addresses)
               /\ target_server \in DOMAIN chunk_servers' =>
                    \A c \in Range(chunk_servers'[target_server]) :
                      c.chunk_id # chunk_id]_vars

\* C31: for each lost chunk the checker selects at most replication_factor minus
\* the number of surviving replicas of that chunk targets (none when that is 0);
\* the targets are pairwise distinct, registered, not the failed server, loaded
\* below max_allowed_chunks and did not hold the chunk.
C31_TargetsWithinNeeded ==
  [][(chk_pc = "repair" /\ chk_i' = chk_i + 1) =>
       LET failed_server == failed_servers[chk_i]
       IN  \A f \in DOMAIN file_chunks : \A i \in 1..Len(file_chunks[f]) :
             file_chunks'[f][i] # file_chunks[f][i] =>
               LET survivors == Range(file_chunks[f][i].server_addresses) \ {failed_server}
                   targets == file_chunks'[f][i].server_addresses
               IN  /\ Len(targets) <= replication_factor - Cardinality(survivors)
                   /\ \A j, k \in 1..Len(targets) : j # k => targets[j] # targets[k]
                   /\ \A t \in Range(targets) :
                        /\ t \in DOMAIN chunk_servers
                        /\ t # failed_server
                        /\ Len(chunk_servers[t]) < max_allowed_chunks
                        /\ \A c \in Range(chunk_servers[t]) :
                             c.chunk_id # file_chunks[f][i].chunk_id]_vars

\* C32: when a failed server held a chunk whose recorded server_addresses
\* without the failed server are empty, the checker transfers no copy of it and
\* leaves the chunk's chunk_map and file_chunks entries as they were.
C32_LostChunkSkipped ==
  [][(chk_pc = "repair" /\ chk_i' = chk_i + 1) =>
       LET failed_server == failed_servers[chk_i]
           chunks_to_reassign == IF failed_server \in DOMAIN chunk_servers
                                 THEN chunk_servers[failed_server] ELSE <<>>
       IN  \A chunk_info \in Range(chunks_to_reassign) :
             LET chunk_id == chunk_info.chunk_id
             IN  (/\ chunk_id \in DOMAIN chunk_map
                  /\ Range(chunk_map[chunk_id].server_addresses) \ {failed_server} = {}) =>
                   /\ chunk_id \in DOMAIN chunk_map'
                   /\ chunk_map'[chunk_id] = chunk_map[chunk_id]
                   /\ \A f \in DOMAIN file_chunks : \A i \in 1..Len(file_chunks[f]) :
                        file_chunks[f][i].chunk_id = chunk_id =>
                          file_chunks'[f][i] = file_chunks[f][i]
                   /\ \A s \in Servers :
                        /\ (chunk_id \in DOMAIN blobs'[s]) = (chunk_id \in DOMAIN blobs[s])
                        /\ chunk_id \in DOMAIN blobs[s] =>
                             blobs'[s][chunk_id] = blobs[s][chunk_id]]_vars

\* A pass has just skipped a chunk whose only recorded replica was the failed
\* server, which stored the chunk's file.
C32_Witness ==
  /\ chk_pc = "repair"
  /\ chk_i > 1
  /\ failed_servers[chk_i - 1] \notin DOMAIN chunk_servers
  /\ \E chunk_id \in DOMAIN chunk_map :
       /\ chunk_map[chunk_id].server_addresses = <<failed_servers[chk_i - 1]>>
       /\ chunk_id \in DOMAIN blobs[failed_servers[chk_i - 1]]

\* C33: for each chunk of an AssignChunks call the selected servers are the
\* least loaded by current load, the chunks assigned earlier in the same call
\* counted: no unselected available server has a strictly smaller current load
\* than a selected one.
C33_LeastLoadedByCurrentLoad ==
  [][(/\ ncalls' = ncalls + 1
      /\ call'.op = "assign"
      /\ call'.state = "propagating") =>
       \A k \in 1..Len(call'.resp_chunks) :
         LET selected == Range(call'.resp_chunks[k].server_addresses)
             current_load(a) ==
               Len(chunk_servers[a])
                 + Cardinality({j \in 1..(k - 1) :
                                  a \in Range(call'.resp_chunks[j].server_addresses)})
         IN  \A a \in selected :
               \A b \in (DOMAIN AvailChunkServers(chunk_servers)) \ selected :
                 ~(current_load(b) < current_load(a))]_vars

\* C34: a shadow sets is_leader_flag only in a round whose connection to its
\* current_master failed; that round starts the heartbeat checker, once, and
\* ends the ping loop; a flag that is true stays true.
C34_PromotionOnConnectFailure ==
  [][\A n \in MasterNodes :
       /\ (is_leader_flag'[n] /\ ~is_leader_flag[n]) =>
            /\ current_master[n] \notin alive
            /\ tasks[n].ping = "running"
            /\ tasks'[n].ping = "ended"
            /\ tasks'[n].checkers = tasks[n].checkers + 1
       /\ is_leader_flag[n] => is_leader_flag'[n]
       /\ tasks'[n].checkers # tasks[n].checkers =>
            (is_leader_flag'[n] /\ ~is_leader_flag[n])
       /\ tasks[n].ping = "ended" => tasks'[n].ping = "ended"
       /\ tasks'[n].checkers <= 1]_vars

\* A shadow master became the leader after the leader had exited: its ping loop
\* has ended and it started one heartbeat checker.
C34_Witness ==
  /\ Leader \notin alive
  /\ is_leader_flag[FirstShadow]
  /\ tasks[FirstShadow] = [ping |-> "ended", checkers |-> 1]

\* C35: determine_leader returns the first address of master_addrs, the own
\* address passed over, whose ping_master answered is_leader = true, and None
\* when no address answered true; a node that found a leader is in that
\* leader's shadow_masters.
C35_FoundLeaderHasSender ==
  /\ (dl.pc = "returned" /\ dl.leader # "") =>
       /\ dl.leader = master_addrs[dl.i]
       /\ dl.leader # dl.self_addr
       /\ dl.self_addr \in ShadowSetOf(dl.leader)
  /\ (dl.pc = "returned" /\ dl.leader = "") => dl.i > Len(master_addrs)

\* C36: with authentication, validate_otp accepts an OTP exactly when the table
\* holds it with an expiration time after now, so an entry that expires now and
\* an expired entry still in the table are rejected; a round of the cleanup
\* removes exactly the entries whose expiration time is not after now and
\* changes the verdict for no OTP; without authentication every OTP passes.
C36_OtpVerdict ==
  [][/\ (rpc'.op = "validate_otp" /\ otp_store' = otp_store /\ now' = now) =>
          ((rpc'.status = "ok") <=>
             (\/ ~rpc'.use_authentication
              \/ /\ rpc'.otp \in DOMAIN otp_store[rpc'.server]
                 /\ otp_store[rpc'.server][rpc'.otp] > now))
     /\ otp_store' # otp_store =>
          \A s \in Servers :
            /\ DOMAIN otp_store'[s] = {o \in DOMAIN otp_store[s] : otp_store[s][o] > now}
            /\ \A o \in DOMAIN otp_store'[s] : otp_store'[s][o] = otp_store[s][o]
            /\ \A o \in OtpValues : \A auth \in BOOLEAN :
                 ValidateOtpWith(auth, otp_store'[s], o, now)
                   = ValidateOtpWith(auth, otp_store[s], o, now)]_vars

\* An OTP whose entry expires now was rejected with authentication on.
C36_Witness ==
  /\ rpc.op = "validate_otp"
  /\ rpc.use_authentication
  /\ rpc.status = "unauthenticated"
  /\ rpc.otp \in DOMAIN otp_store[rpc.server]
  /\ otp_store[rpc.server][rpc.otp] = now

\* C37: a chunkserver that has a load entry and sends no further heartbeat is
\* removed from chunk_servers by the checker in the end. A server that stays in
\* chunk_servers without an entry in last_heartbeat_time has sent no heartbeat
\* since it registered or since a pass removed its stamp, so no server may stay
\* that way for ever.
C37_SilentServerRemoved ==
  \A a \in Servers :
    []<>(a \notin DOMAIN chunk_servers \/ a \in DOMAIN last_heartbeat_time)

\* C38: a server whose Heartbeat the leader handled during a pass that had
\* classified it as failed is, when the pass ends, still in last_heartbeat_time
\* with the time of that heartbeat and still has its load entry. At the end of
\* a pass such a server is one of failed_servers whose stamp is not a failed one.
C38_HeartbeatDuringPassKept ==
  [][(chk_pc = "repair" /\ chk_pc' = "idle") =>
       \A s \in Range(failed_servers) :
         (s \in DOMAIN last_heartbeat_time /\ ~IsFailed(last_heartbeat_time[s], now)) =>
           /\ s \in DOMAIN last_heartbeat_time'
           /\ last_heartbeat_time'[s] = last_heartbeat_time[s]
           /\ s \in DOMAIN chunk_servers']_vars

\* C39: DeleteFile removes no chunkserver from chunk_servers: the addresses
\* with a load entry are the same before and after the call.
C39_DeleteKeepsLoadEntries ==
  [][(ncalls' = ncalls + 1 /\ call'.op = "delete") =>
       DOMAIN chunk_servers' = DOMAIN chunk_servers]_vars

\* C40: an AssignChunks call for a file name that file_chunks already has
\* leaves the existing file as it was: its file_chunks entry under the original
\* name, the chunk_map entries of its chunks and those chunks in the loads are
\* the same after the call, and the new chunks are recorded only under the new
\* name.
C40_ExistingFileUntouched ==
  [][(/\ ncalls' = ncalls + 1
      /\ call'.op = "assign"
      /\ call'.state = "propagating"
      /\ call'.file_name \in DOMAIN file_chunks) =>
       LET file_name == call'.file_name
       IN  /\ file_name \in DOMAIN file_chunks'
           /\ file_chunks'[file_name] = file_chunks[file_name]
           /\ \A c \in DOMAIN chunk_map :
                c \in DOMAIN chunk_map' /\ chunk_map'[c] = chunk_map[c]
           /\ \A a \in DOMAIN chunk_servers : \A ci \in Range(chunk_servers[a]) :
                a \in DOMAIN chunk_servers' /\ ci \in Range(chunk_servers'[a])
           /\ \A f \in DOMAIN file_chunks' : \A ci \in Range(file_chunks'[f]) :
                ci \in Range(call'.resp_chunks) => f = call'.resp_name]_vars

====
